---- MODULE Spec2Model ----
(***************************************************************************)
(* A model of the WebAssembly skill engine of src/agent/plugin_engine.rs:   *)
(* the skill registry (PluginEngine.modules), load_skills, and call_skill  *)
(* with its two host capabilities host.write and host.readdir; and of the  *)
(* periodic agent of src/agent/project_scanner.rs that calls one skill.    *)
(*                                                                         *)
(* Strings are sequences of Unicode code points, guest memory and file     *)
(* names are sequences of bytes (0..255).                                  *)
(***************************************************************************)
EXTENDS Integers, Sequences, FiniteSets, TLC

VARIABLES
    skillsDir,   \* the entries of the directory PluginEngine.skills_dir
    modules,     \* PluginEngine.modules: skill name -> compiled Module
    loadResult,  \* what the last load_skills returned: "none", "ok", "err"
    scan,        \* where load_skills is, and what it has listed
    inv,         \* per calling thread, its call_skill invocation
    agent,       \* the ProjectScannerAgent that owns the engine, if one does
    mm,          \* a ModelManager: its directory and what its last call did
    np,          \* a NativeProvider shared by its clones, and their calls
    lp,          \* a LlamaProvider and the start() calls on it
    tm,          \* a ProfessionalTaskManager: its tasks, queue and last call
    sa,          \* a SuperAgent: scheduler, graph and the run_goal call on it
    sh           \* a SessionHistory: its queues and everything ever added

\* The state of the components other than the skill engine and its agent.
others == <<mm, np, lp, tm, sa, sh>>

vars == <<skillsDir, modules, loadResult, scan, inv, agent, others>>

---------------------------------------------------------------------------
(* Bounds of the model.                                                    *)

\* Bytes of guest linear memory (one wasm page is 65536 bytes; scaled down).
MemSize == 4

\* Threads that call call_skill on the one shared engine (call_skill takes
\* &self, so calls may overlap).
Callers == {1, 2}

---------------------------------------------------------------------------
(* Machine integers.                                                       *)

\* i32::MAX, the largest value a guest can pass for ptr or len.
I32Max == 2147483647

\* `x as usize` for an i32 x (plugin_engine.rs:95,96): sign-extension to the
\* pointer width.  A negative x becomes 2^64 + x, which no TLC integer holds:
\* it is kept as the pair (wrapped, x), standing for 2^64 + x.
AsUsize(x) == [wrapped |-> x < 0, v |-> x]

\* vec![0u8; n] (plugin_engine.rs:95,112): allocating more than isize::MAX
\* bytes panics with "capacity overflow"; every cast of a negative i32 is
\* above isize::MAX.  Smaller allocations are taken to succeed.
VecAllocPanics(n) == n.wrapped

\* Memory::read(store, offset, buf) (plugin_engine.rs:96,113): the bytes
\* mem[offset .. offset + n) or Err when the range leaves the memory.
MemReadOk(mem, offset, n) ==
    /\ ~offset.wrapped
    /\ ~n.wrapped
    /\ offset.v <= Len(mem)
    /\ n.v <= Len(mem) - offset.v

MemRead(mem, offset, n) == [i \in 1..n.v |-> mem[offset.v + i]]

---------------------------------------------------------------------------
(* String::from_utf8_lossy (plugin_engine.rs:99,116): each maximal invalid *)
(* chunk becomes one U+FFFD, as core::str::lossy::Utf8Chunks computes it.  *)

Replacement == 65533

IsCont(b) == b >= 128 /\ b <= 191

\* utf8_char_width of a leading byte >= 128 (0: not a leading byte).
Utf8Width(b) ==
    IF b >= 194 /\ b <= 223 THEN 2
    ELSE IF b >= 224 /\ b <= 239 THEN 3
    ELSE IF b >= 240 /\ b <= 244 THEN 4
    ELSE 0

\* The second byte a 3- or 4-byte leader accepts.
SecondOk(b, s) ==
    CASE b = 224 -> s >= 160 /\ s <= 191
      [] b >= 225 /\ b <= 236 -> s >= 128 /\ s <= 191
      [] b = 237 -> s >= 128 /\ s <= 159
      [] b >= 238 /\ b <= 239 -> s >= 128 /\ s <= 191
      [] b = 240 -> s >= 144 /\ s <= 191
      [] b >= 241 /\ b <= 243 -> s >= 128 /\ s <= 191
      [] b = 244 -> s >= 128 /\ s <= 143
      [] OTHER -> FALSE

\* safe_get: the byte at 1-based position i, or 0 past the end.
SafeGet(bs, i) == IF i <= Len(bs) THEN bs[i] ELSE 0

\* One step of Utf8Chunks at position i: [ok, next, cp].  ok: a whole scalar
\* value cp was read; otherwise bs[i .. next) is one invalid chunk.
Utf8Step(bs, i) ==
    LET b == bs[i]
        w == Utf8Width(b)
        b2 == SafeGet(bs, i + 1)
        b3 == SafeGet(bs, i + 2)
        b4 == SafeGet(bs, i + 3)
    IN  IF b < 128 THEN [ok |-> TRUE, next |-> i + 1, cp |-> b]
        ELSE IF w = 2 THEN
            IF IsCont(b2)
            THEN [ok |-> TRUE, next |-> i + 2, cp |-> (b - 192) * 64 + (b2 - 128)]
            ELSE [ok |-> FALSE, next |-> i + 1, cp |-> Replacement]
        ELSE IF w = 3 THEN
            IF ~SecondOk(b, b2) THEN [ok |-> FALSE, next |-> i + 1, cp |-> Replacement]
            ELSE IF ~IsCont(b3) THEN [ok |-> FALSE, next |-> i + 2, cp |-> Replacement]
            ELSE [ok |-> TRUE, next |-> i + 3,
                  cp |-> (b - 224) * 4096 + (b2 - 128) * 64 + (b3 - 128)]
        ELSE IF w = 4 THEN
            IF ~SecondOk(b, b2) THEN [ok |-> FALSE, next |-> i + 1, cp |-> Replacement]
            ELSE IF ~IsCont(b3) THEN [ok |-> FALSE, next |-> i + 2, cp |-> Replacement]
            ELSE IF ~IsCont(b4) THEN [ok |-> FALSE, next |-> i + 3, cp |-> Replacement]
            ELSE [ok |-> TRUE, next |-> i + 4,
                  cp |-> (b - 240) * 262144 + (b2 - 128) * 4096
                         + (b3 - 128) * 64 + (b4 - 128)]
        ELSE [ok |-> FALSE, next |-> i + 1, cp |-> Replacement]

RECURSIVE Utf8From(_, _)
Utf8From(bs, i) ==
    IF i > Len(bs) THEN [chars |-> <<>>, valid |-> TRUE]
    ELSE LET s == Utf8Step(bs, i)
             r == Utf8From(bs, s.next)
         IN  [chars |-> <<s.cp>> \o r.chars, valid |-> s.ok /\ r.valid]

FromUtf8Lossy(bs) == Utf8From(bs, 1).chars

\* OsStr::to_str (plugin_engine.rs:120): Some only for valid UTF-8.
OsStrIsUtf8(bs) == Utf8From(bs, 1).valid

---------------------------------------------------------------------------
(* serde_json::to_string(&Vec<String>) (plugin_engine.rs:123).             *)

Quote == 34
Backslash == 92

HexDigit(n) == IF n < 10 THEN 48 + n ELSE 87 + n

\* serde_json's ESCAPE table: the quote, the backslash and the control
\* characters are escaped, every other character is written as it is.
JsonEscapeChar(c) ==
    CASE c = Quote -> <<Backslash, Quote>>
      [] c = Backslash -> <<Backslash, Backslash>>
      [] c = 8 -> <<Backslash, 98>>
      [] c = 9 -> <<Backslash, 116>>
      [] c = 10 -> <<Backslash, 110>>
      [] c = 12 -> <<Backslash, 102>>
      [] c = 13 -> <<Backslash, 114>>
      [] c < 32 /\ c \notin {8, 9, 10, 12, 13} ->
            <<Backslash, 117, 48, 48, HexDigit(c \div 16), HexDigit(c % 16)>>
      [] OTHER -> <<c>>

RECURSIVE JsonEscape(_)
JsonEscape(str) ==
    IF str = <<>> THEN <<>>
    ELSE JsonEscapeChar(Head(str)) \o JsonEscape(Tail(str))

JsonString(str) == <<Quote>> \o JsonEscape(str) \o <<Quote>>

RECURSIVE JsonItems(_)
JsonItems(list) ==
    IF list = <<>> THEN <<>>
    ELSE IF Len(list) = 1 THEN JsonString(list[1])
    ELSE JsonString(list[1]) \o <<44>> \o JsonItems(Tail(list))

\* "[" items "]"
ToJson(list) == <<91>> \o JsonItems(list) \o <<93>>

---------------------------------------------------------------------------
(* The host file system std::fs::read_dir sees (plugin_engine.rs:118).     *)
(* Paths are relative to the working directory:                            *)
(*   d/      a.txt  b.txt  s/ (holding n.txt)                              *)
(*   x/      q"     and one entry whose name is not UTF-8 (byte 0xFF)      *)
(*   f       a regular file                                                *)
(*   p/      a directory the process may not read                          *)

NameA == <<97, 46, 116, 120, 116>>
NameB == <<98, 46, 116, 120, 116>>
NameS == <<115>>

HostFs ==
    ( <<100>> :> [kind |-> "dir", entries |-> {NameA, NameB, NameS}] ) @@
    ( <<100, 47, 115>> :> [kind |-> "dir", entries |-> {<<110, 46, 116, 120, 116>>}] ) @@
    ( <<120>> :> [kind |-> "dir", entries |-> {<<113, 34>>, <<255>>}] ) @@
    ( <<102>> :> [kind |-> "file", entries |-> {}] ) @@
    ( <<112>> :> [kind |-> "noperm", entries |-> {}] )

\* read_dir(path) is Ok: the path names a directory the process can read.
ReadDirOk(path) == path \in DOMAIN HostFs /\ HostFs[path].kind = "dir"

\* The orders in which the iterator may yield a directory's entries: every
\* enumeration without repetition (the order is the operating system's).
ReadDirOrders(path) ==
    LET es == HostFs[path].entries
        n == Cardinality(es)
    IN  {o \in [1..n -> es] : \A i, j \in 1..n : o[i] = o[j] => i = j}

\* A variant of ListNames that keeps every name, decoded lossily.
RECURSIVE ListNamesLossy(_)
ListNamesLossy(order) ==
    IF order = <<>> THEN <<>>
    ELSE <<FromUtf8Lossy(Head(order))>> \o ListNamesLossy(Tail(order))

\* plugin_engine.rs:119-121: the names that to_str() accepts, in the order
\* yielded, as Strings.
RECURSIVE ListNames(_)
ListNames(order) ==
    IF order = <<>> THEN <<>>
    ELSE IF OsStrIsUtf8(Head(order))
         THEN <<FromUtf8Lossy(Head(order))>> \o ListNames(Tail(order))
         ELSE ListNames(Tail(order))

---------------------------------------------------------------------------
(* Guest modules.  A guest is what wasmtime runs: its exports, its data    *)
(* segment, and the instructions of its functions, reduced to the ones the *)
(* host can observe: a capability call, a store to its own memory, a trap. *)

W(p, l) == [op |-> "write", a |-> p, b |-> l]
R(p, l) == [op |-> "readdir", a |-> p, b |-> l]
St(addr, byte) == [op |-> "store", a |-> addr, b |-> byte]

\* An export named run or _start is "func" (a function () -> ()), "badsig"
\* (a function of another type), "other" (not a function) or "none".
Guest(memory, data, linkable, startFn, runKind, runCode, startKind, startCode) ==
    [ memory |-> memory,       \* exports a memory named "memory"
      data |-> data,           \* (data (i32.const 0) ...)
      linkable |-> linkable,   \* every import is one the linker defines
      startFn |-> startFn,     \* the module's (start ...) function, <<>> if none
      exports |-> ("run" :> runKind) @@ ("_start" :> startKind),
      code |-> ("run" :> runCode) @@ ("_start" :> startCode) ]

BehaviourModules ==
    ( "hello" :> Guest(TRUE, <<72, 105, 33>>, TRUE, <<>>,
                       "func", <<W(0, 3)>>, "none", <<>>) ) @@
    ( "utf8" :> Guest(TRUE, <<195, 169, 195, 40>>, TRUE, <<>>,
                      "func", <<W(0, 2), W(2, 2), W(1, 1)>>, "none", <<>>) ) @@
    ( "lister" :> Guest(TRUE, <<100, 62>>, TRUE, <<>>,
                        "func", <<W(1, 1), R(0, 1), W(1, 1)>>, "none", <<>>) ) @@
    ( "spin" :> Guest(TRUE, <<115>>, TRUE, <<>>,
                      "func", <<W(0, 1), [op |-> "loop", a |-> 0, b |-> 0]>>, "none", <<>>) ) @@
    ( "xlister" :> Guest(TRUE, <<120>>, TRUE, <<>>,
                         "func", <<R(0, 1)>>, "none", <<>>) ) @@
    ( "badpath" :> Guest(TRUE, <<102, 112, 109, 62>>, TRUE, <<>>,
                         "func", <<W(3, 1), R(0, 1), R(1, 1), R(2, 1)>>, "none", <<>>) ) @@
    ( "both" :> Guest(TRUE, <<114, 115>>, TRUE, <<>>,
                      "func", <<W(0, 1)>>, "func", <<W(1, 1)>>) ) @@
    ( "startonly" :> Guest(TRUE, <<115>>, TRUE, <<>>,
                           "none", <<>>, "func", <<W(0, 1)>>) ) @@
    ( "passive" :> Guest(TRUE, <<112>>, TRUE, <<>>,
                         "none", <<>>, "none", <<>>) ) @@
    ( "ctor" :> Guest(TRUE, <<99>>, TRUE, <<W(0, 1)>>,
                      "none", <<>>, "none", <<>>) ) @@
    ( "trapper" :> Guest(TRUE, <<116>>, TRUE, <<>>,
                         "func", <<W(0, 1), [op |-> "trap", a |-> 0, b |-> 0]>>, "none", <<>>) ) @@
    ( "badctor" :> Guest(TRUE, <<99>>, TRUE, <<W(0, 1), [op |-> "trap", a |-> 0, b |-> 0]>>,
                         "func", <<W(0, 1)>>, "none", <<>>) ) @@
    ( "noimport" :> Guest(TRUE, <<110>>, FALSE, <<>>,
                          "func", <<W(0, 1)>>, "none", <<>>) ) @@
    ( "nomem" :> Guest(FALSE, <<>>, TRUE, <<>>,
                       "func", <<W(0, 1), R(0, 1), W(0, -1)>>, "none", <<>>) ) @@
    ( "mut" :> Guest(TRUE, <<65>>, TRUE, <<>>,
                     "func", <<W(0, 1), St(0, 72), W(0, 1)>>, "none", <<>>) ) @@
    ( "badrun" :> Guest(TRUE, <<98>>, TRUE, <<>>,
                        "badsig", <<W(0, 1)>>, "func", <<W(0, 1)>>) ) @@
    ( "globrun" :> Guest(TRUE, <<103>>, TRUE, <<>>,
                         "other", <<>>, "func", <<W(0, 1)>>) )

\* The probe guests: run writes "H", makes one capability call with the
\* sampled (ptr, len), and writes "H" again.  Memory: "d", "H", 0xFF, 0.
\* The capability and the (ptr, len) arguments a probe guest passes to it:
\* negative, zero, inside the memory, at its end, past its end, i32::MAX.
ProbeSpace == {"write", "readdir"} \X {-1, 0, 1, MemSize, MemSize + 1} \X {-1, 0, 1, 2, I32Max}
ProbeId(a) == a[1] \o "(" \o ToString(a[2]) \o "," \o ToString(a[3]) \o ")"
ProbeIds(kind) == {ProbeId(a) : a \in {x \in ProbeSpace : x[1] = kind}}
ProbeGuest(a) ==
    Guest(TRUE, <<100, 72, 255>>, TRUE, <<>>,
          "func", <<W(1, 1), [op |-> a[1], a |-> a[2], b |-> a[3]], W(1, 1)>>,
          "none", <<>>)

\* What compiling a skill file's content yields (Module::new).
ModuleTable ==
    BehaviourModules @@
    [id \in ProbeIds("write") \cup ProbeIds("readdir") |->
        ProbeGuest(CHOOSE a \in ProbeSpace : ProbeId(a) = id)]

\* A regular file of the skills directory with a UTF-8 stem: a.wat (hello),
\* broken.wat (text that does not parse) and a.wasm (passive) are the files
\* added to and removed from the directory between loads.  pos is the place
\* at which read_dir yields the file.
SkillFile(stem, ext, pos, content) ==
    [stem |-> stem, utf8 |-> TRUE, ext |-> ext, kind |-> "file", pos |-> pos, content |-> content]

---------------------------------------------------------------------------
(* The skills directory: a set of entries.  Of an entry the scan uses its  *)
(* kind, its extension, its stem (utf8: the stem is valid UTF-8, so that   *)
(* to_str() is Some), its content, and its place in the order in which     *)
(* read_dir yields the entries (pos).  That order is the file system's:    *)
(* the code does not sort, so files that share a name, or that stand next  *)
(* to a file that does not compile, occur in every order (the order is     *)
(* chosen when a file enters the directory and stays while the directory   *)
(* is not changed).  Entries that share a pos compile and have different   *)
(* names, so that their mutual order is immaterial.                        *)

\* The directories the engine is started on.
DirBehaviours ==
    {SkillFile(id, "wat", 0, id) : id \in DOMAIN BehaviourModules}
    \cup { [stem |-> "notes", utf8 |-> TRUE, ext |-> "txt", kind |-> "file",
            pos |-> 0, content |-> "text"],
           [stem |-> "sub", utf8 |-> TRUE, ext |-> "wat", kind |-> "dir",
            pos |-> 0, content |-> ""],
           [stem |-> "odd", utf8 |-> FALSE, ext |-> "wat", kind |-> "file",
            pos |-> 0, content |-> "hello"] }

\* A directory with two files of one stem; x.wasm is yielded at place p of
\* the two, x.wat at the other.
DirTwins(p) ==
    {SkillFile("x", "wasm", p, "passive"), SkillFile("x", "wat", 3 - p, "hello")}

---------------------------------------------------------------------------
(* PluginEngine::load_skills (plugin_engine.rs:43-64).                     *)

\* plugin_engine.rs:48-54: a regular file whose extension is wasm or wat.
Recognized(dir) == {f \in dir : f.kind = "file" /\ f.ext \in {"wasm", "wat"}}

\* Module::from_file / wat::parse_str / Module::new succeed on the file.
Compiles(f) == f.content \in DOMAIN ModuleTable

Stems(fs) == {f.stem : f \in fs}

\* A variant of SkillName that names every file by its stem.
SkillNameOfStem(f) == f.stem

\* plugin_engine.rs:50: file_stem().and_then(to_str).unwrap_or("skill").
SkillName(f) == IF f.utf8 THEN f.stem ELSE "skill"
SkillNames(fs) == {SkillName(f) : f \in fs}

\* A variant of ModulesInsert that registers the module under a new name
\* when the name is taken.
ModulesInsertRenaming(old, n, m) ==
    LET k == IF n \in DOMAIN old THEN n \o "_1" ELSE n
    IN  [x \in DOMAIN old \cup {k} |-> IF x = k THEN m ELSE old[x]]

\* A variant of ModulesInsert that keeps the module a name already has.
ModulesInsertKeeping(old, n, m) ==
    [x \in DOMAIN old \cup {n} |-> IF x \in DOMAIN old THEN old[x] ELSE m]

\* modules.insert(name, module) (plugin_engine.rs:53,59): the insert
\* replaces the module the name had, and every other name keeps its module.
ModulesInsert(old, n, m) ==
    [x \in DOMAIN old \cup {n} |-> IF x = n THEN m ELSE old[x]]

\* The load that is not running: scan.pc is where load_skills is
\*   idle     not running
\*   entry    at the top of the loop over the entries (line 46)
\*   compile  the entry is a recognized file, about to be read (52, 56)
\* scan.todo holds the entries that read_dir listed and the loop has not
\* passed.  For the statements about a load the record also keeps: old, the
\* registry as it was when the running load began; quiet, whether the
\* directory is still as the last load listed it (nobody has put a file in
\* or taken one out since); again, whether the last load began with the
\* directory as the load before it had listed it, and the directory has
\* stayed so.
NoScan ==
    [pc |-> "idle", todo |-> {}, old |-> <<>>, quiet |-> TRUE, again |-> FALSE]

---------------------------------------------------------------------------
(* The host capabilities (plugin_engine.rs:89-131).  Each takes the        *)
(* calling instance (whether it exports "memory", and the memory) and the  *)
(* accumulator, and yields the accumulator after the call, or a panic.     *)

\* A variant of PushStr that puts the new text in front of the accumulator.
PushFront(out, str) == str \o out

\* out.push_str(&s) (plugin_engine.rs:101,128).
PushStr(out, str) == out \o str

Returned(out) == [status |-> "ok", out |-> out]
Panic(out) == [status |-> "panic", out |-> out]

\* host.write(ptr, len) (plugin_engine.rs:89-104).
HostWrite(hasMemory, mem, out, ptr, len) ==
    IF ~hasMemory THEN Returned(out)
    ELSE IF VecAllocPanics(AsUsize(len)) THEN Panic(out)
    ELSE IF ~MemReadOk(mem, AsUsize(ptr), AsUsize(len)) THEN Returned(out)
    ELSE Returned(PushStr(out, FromUtf8Lossy(MemRead(mem, AsUsize(ptr), AsUsize(len)))))

\* plugin_engine.rs:117-122: the list the callback serializes, one per order
\* in which the directory can be read; the empty list when read_dir fails.
ReaddirLists(path) ==
    IF ReadDirOk(path) THEN {ListNames(o) : o \in ReadDirOrders(path)}
    ELSE {<<>>}

\* The lists a host.readdir(ptr, len) call may build: those of the path it
\* reads from memory, and the empty list when it returns before read_dir.
ReaddirChoices(hasMemory, mem, ptr, len) ==
    IF hasMemory /\ ~VecAllocPanics(AsUsize(len))
       /\ MemReadOk(mem, AsUsize(ptr), AsUsize(len))
    THEN ReaddirLists(FromUtf8Lossy(MemRead(mem, AsUsize(ptr), AsUsize(len))))
    ELSE {<<>>}

\* host.readdir(ptr, len) (plugin_engine.rs:107-131), list being what the
\* loop over read_dir collected.
HostReaddir(hasMemory, mem, out, ptr, len, list) ==
    IF ~hasMemory THEN Returned(out)
    ELSE IF VecAllocPanics(AsUsize(len)) THEN Panic(out)
    ELSE IF ~MemReadOk(mem, AsUsize(ptr), AsUsize(len)) THEN Returned(out)
    ELSE Returned(PushStr(out, ToJson(list)))

---------------------------------------------------------------------------
(* PluginEngine::call_skill (plugin_engine.rs:69-149), one invocation per  *)
(* calling thread.  pc is the phase the invocation is in:                  *)
(*   Idle         the thread has not called yet                            *)
(*   Lookup       called, modules.get(name) not yet done                   *)
(*   Instantiate  context construction and linker.instantiate, which runs  *)
(*                the module's start function (fn = "start")               *)
(*   Invoke       entry-point selection, then the entry point (fn)         *)
(*   Drain        the entry point has returned, the accumulator is read    *)
(*   Done         returned Ok(result.val)                                  *)
(*   Failed       returned Err(result.err)                                 *)
(*   Panicked     a host callback panicked and unwound the calling thread  *)

NoModule == ""
NoResult == [kind |-> "none", val |-> <<>>, err |-> ""]
Ok(str) == [kind |-> "ok", val |-> str, err |-> ""]
Err(e) == [kind |-> "err", val |-> <<>>, err |-> e]

\* The input argument, an Option<&str>: None, or Some of a string.
SomeInput(str) == [some |-> TRUE, str |-> str]

IdleInv ==
    [ pc |-> "Idle",
      name |-> "",
      module |-> NoModule,     \* the Module that modules.get returned
      ctx |-> FALSE,           \* a HostData and Store were constructed
      mem |-> <<>>,            \* the instance's linear memory
      out |-> <<>>,            \* HostData.out, the accumulator
      fn |-> "none",           \* the guest function that is running
      ip |-> 0,                \* instructions of fn already executed
      result |-> NoResult,
      failedAt |-> "",         \* the phase a failed call failed in
      calls |-> <<>>,          \* the entry points invoked, in order
      log |-> <<>>,            \* the capability calls that returned, in order
      afterOutput |-> FALSE,   \* an earlier call had emitted output
      afterTrap |-> FALSE,     \* an earlier call had ended in a trap
      input |-> [some |-> FALSE, str |-> <<>>] ]      \* the input argument of the call

InProgress(c) == inv[c].pc \in {"Lookup", "Instantiate", "Invoke", "Drain"}

\* The names a caller passes: every stem in the directory, every registered
\* name and one name no file has.  The second thread calls a few of them, concurrently with
\* whatever the first thread calls.
NamesOf(c) ==
    IF c = 1
    THEN Stems(skillsDir) \cup DOMAIN modules \cup {"nosuch"}
    ELSE (Stems(skillsDir) \cup DOMAIN modules \cup {"nosuch"})
         \cap {"hello", "lister", "passive", "nosuch"}

\* The inputs a caller passes: None, and for the first thread's calls of a
\* few names also Some("Z") (one byte, 90).
InputsOf(c, name) ==
    IF c = 1 /\ name \in {"hello", "trapper", "ctor", "nosuch", "a"}
    THEN {[some |-> FALSE, str |-> <<>>], SomeInput(<<90>>)}
    ELSE {[some |-> FALSE, str |-> <<>>]}

\* A variant of ModulesGet that falls back to some registered module when
\* the name is missing.
ModulesGetFallback(registry, name) ==
    IF name \in DOMAIN registry
    THEN [found |-> TRUE, module |-> registry[name]]
    ELSE IF DOMAIN registry # {}
    THEN [found |-> TRUE, module |-> registry[CHOOSE n \in DOMAIN registry : TRUE]]
    ELSE [found |-> FALSE, module |-> NoModule]

\* modules.get(name) (plugin_engine.rs:73).
ModulesGet(registry, name) ==
    IF name \in DOMAIN registry
    THEN [found |-> TRUE, module |-> registry[name]]
    ELSE [found |-> FALSE, module |-> NoModule]

\* A variant of HostDataOut that takes over the accumulator another
\* invocation left behind.
HostDataOutReused(c) == inv[CHOOSE d \in Callers : d # c].out

\* out: Arc::new(Mutex::new(String::new())) (plugin_engine.rs:82).
HostDataOut(c) == <<>>

\* A variant of AccumulatorOf with one accumulator for all invocations.
SharedAccumulator(c) == 1

\* caller.data().out (plugin_engine.rs:100,127): the accumulator a callback
\* running in c's store appends to is the one of c's own HostData.
AccumulatorOf(c) == c

\* The memory of a fresh instance: the data segment, then zeros.
InitMemory(m) ==
    IF m.memory
    THEN [i \in 1..MemSize |-> IF i <= Len(m.data) THEN m.data[i] ELSE 0]
    ELSE <<>>

\* A variant of InstanceMemory that copies the input to the start of the
\* instance's memory.
InstanceMemoryWithInput(m, input) ==
    [i \in 1..Len(InitMemory(m)) |->
        IF i <= Len(input.str) THEN input.str[i] ELSE InitMemory(m)[i]]

\* The memory of the instance that call_skill(name, input) makes:
\* linker.instantiate (plugin_engine.rs:137) is given the store and the
\* module, and the parameter _input (plugin_engine.rs:69) is read nowhere.
InstanceMemory(m, input) == InitMemory(m)

\* A variant of Links that resolves every import.
LinksAnything(m) == TRUE

\* linker.instantiate resolves the imports of the module: each must be one
\* of host.write, host.readdir and the functions add_to_linker defined,
\* with the type it was defined with.
Links(m) == m.linkable

\* A variant of TrapResult that returns the output accumulated so far.
TrapResultPartial(out) == [kind |-> "ok", val |-> out, err |-> ""]

\* What call_skill returns when the guest traps: the ? at
\* plugin_engine.rs:137,140,143 returns the trap as the error, and the
\* store with its accumulator is dropped.
TrapResult(out) == Err("trap")


Running(c) == inv[c].pc \in {"Instantiate", "Invoke"} /\ inv[c].fn # "none"
CurModule(c) == ModuleTable[inv[c].module]
CurCode(c) ==
    IF inv[c].fn = "start" THEN CurModule(c).startFn ELSE CurModule(c).code[inv[c].fn]
AtOp(c, op) ==
    /\ Running(c)
    /\ inv[c].ip < Len(CurCode(c))
    /\ CurCode(c)[inv[c].ip + 1].op = op
CurOp(c) == CurCode(c)[inv[c].ip + 1]

Fail(c, e) ==
    [inv EXCEPT ![c].pc = "Failed", ![c].result = Err(e),
                ![c].failedAt = inv[c].pc, ![c].fn = "none"]

StartCall(c, name, input) ==
    /\ inv[c].pc \in {"Idle", "Done", "Failed"}
    /\ scan.pc = "idle"
    /\ inv' = [inv EXCEPT ![c] =
                [IdleInv EXCEPT !.pc = "Lookup", !.name = name, !.input = input,
                    !.afterOutput = \E d \in Callers :
                        inv[d].pc \in {"Done", "Failed"} /\ inv[d].out # <<>>,
                    !.afterTrap = \E d \in Callers :
                        inv[d].pc = "Failed" /\ inv[d].result = Err("trap")]]
    /\ UNCHANGED <<skillsDir, modules, loadResult, scan, agent, others>>

\* A variant of Lookup that takes the module out of the registry.
LookupTaking(c) ==
    /\ inv[c].pc = "Lookup"
    /\ inv' = IF inv[c].name \in DOMAIN modules
              THEN [inv EXCEPT ![c].pc = "Instantiate", ![c].module = modules[inv[c].name]]
              ELSE [inv EXCEPT ![c].pc = "Failed", ![c].failedAt = "Lookup",
                               ![c].result = [kind |-> "err", val |-> <<>>,
                                              err |-> "skill not found"]]
    /\ modules' = [n \in DOMAIN modules \ {inv[c].name} |-> modules[n]]
    /\ UNCHANGED <<skillsDir, loadResult, scan, agent, others>>

Lookup(c) ==
    /\ inv[c].pc = "Lookup"
    /\ LET r == ModulesGet(modules, inv[c].name)
       IN  inv' = IF r.found
                  THEN [inv EXCEPT ![c].pc = "Instantiate", ![c].module = r.module]
                  ELSE Fail(c, "skill not found")
    /\ UNCHANGED <<skillsDir, modules, loadResult, scan, agent, others>>

\* plugin_engine.rs:81-137, up to the start function.
Instantiate(c) ==
    /\ inv[c].pc = "Instantiate"
    /\ inv[c].fn = "none"
    /\ LET m == CurModule(c)
           built == [inv EXCEPT ![c].ctx = TRUE, ![c].out = HostDataOut(c)]
           mem == InstanceMemory(m, inv[c].input)
       IN  inv' = IF ~Links(m)
                  THEN [built EXCEPT ![c].pc = "Failed", ![c].failedAt = "Instantiate",
                                     ![c].result = Err("instantiation")]
                  ELSE IF m.startFn # <<>>
                  THEN [built EXCEPT ![c].mem = mem, ![c].fn = "start"]
                  ELSE [built EXCEPT ![c].mem = mem, ![c].pc = "Invoke"]
    /\ UNCHANGED <<skillsDir, modules, loadResult, scan, agent, others>>

\* A variant of PickEntry that tries _start before run.
PickEntryStartFirst(ex) ==
    IF ex["_start"] \in {"func", "badsig"} THEN "_start"
    ELSE IF ex["run"] \in {"func", "badsig"} THEN "run"
    ELSE "none"

\* plugin_engine.rs:138,141: get_func("run"), else get_func("_start"); get_func
\* is Some for an export that is a function, of any type.
PickEntry(ex) ==
    IF ex["run"] \in {"func", "badsig"} THEN "run"
    ELSE IF ex["_start"] \in {"func", "badsig"} THEN "_start"
    ELSE "none"

\* A variant of SelectEntry that fails the call when the instance has no
\* entry point.
SelectEntryStrict(c) ==
    /\ inv[c].pc = "Invoke"
    /\ inv[c].fn = "none"
    /\ LET ex == ModuleTable[inv[c].module].exports
           pick == IF ex["run"] \in {"func", "badsig"} THEN "run"
                   ELSE IF ex["_start"] \in {"func", "badsig"} THEN "_start"
                   ELSE "none"
       IN  inv' = IF pick = "none" \/ ex[pick] = "badsig"
                  THEN [inv EXCEPT ![c].pc = "Failed", ![c].failedAt = "Invoke",
                                   ![c].result = [kind |-> "err", val |-> <<>>,
                                                  err |-> "no entry point"]]
                  ELSE [inv EXCEPT ![c].fn = pick, ![c].ip = 0,
                                   ![c].calls = Append(@, pick)]
    /\ UNCHANGED <<skillsDir, modules, loadResult, scan, agent, others>>

\* plugin_engine.rs:138-144: typed::<(), ()>() fails on a function that is
\* not () -> (), and call_skill returns that error.
SelectEntry(c) ==
    /\ inv[c].pc = "Invoke"
    /\ inv[c].fn = "none"
    /\ LET ex == CurModule(c).exports
           pick == PickEntry(ex)
       IN  inv' = IF pick = "none" THEN [inv EXCEPT ![c].pc = "Drain"]
                  ELSE IF ex[pick] = "badsig" THEN Fail(c, "type mismatch")
                  ELSE [inv EXCEPT ![c].fn = pick, ![c].ip = 0,
                                   ![c].calls = Append(@, pick)]
    /\ UNCHANGED <<skillsDir, modules, loadResult, scan, agent, others>>

Logged(c, listing) ==
    [op |-> CurOp(c).op, a |-> CurOp(c).a, b |-> CurOp(c).b,
     mem |-> inv[c].mem, listing |-> listing]

\* The guest calls host.write.
HostWriteStep(c) ==
    /\ AtOp(c, "write")
    /\ LET acc == AccumulatorOf(c)
           r == HostWrite(CurModule(c).memory, inv[c].mem, inv[acc].out,
                          CurOp(c).a, CurOp(c).b)
       IN  inv' = IF r.status = "panic"
                  THEN [inv EXCEPT ![c].pc = "Panicked", ![c].failedAt = inv[c].pc]
                  ELSE [inv EXCEPT ![c].ip = @ + 1,
                                   ![c].log = Append(@, Logged(c, <<>>)),
                                   ![acc].out = r.out]
    /\ UNCHANGED <<skillsDir, modules, loadResult, scan, agent, others>>

\* The guest calls host.readdir.
HostReaddirStep(c) ==
    /\ AtOp(c, "readdir")
    /\ \E list \in ReaddirChoices(CurModule(c).memory, inv[c].mem, CurOp(c).a, CurOp(c).b) :
         LET acc == AccumulatorOf(c)
             r == HostReaddir(CurModule(c).memory, inv[c].mem, inv[acc].out,
                              CurOp(c).a, CurOp(c).b, list)
         IN  inv' = IF r.status = "panic"
                    THEN [inv EXCEPT ![c].pc = "Panicked", ![c].failedAt = inv[c].pc]
                    ELSE [inv EXCEPT ![c].ip = @ + 1,
                                     ![c].log = Append(@, Logged(c, list)),
                                     ![acc].out = r.out]
    /\ UNCHANGED <<skillsDir, modules, loadResult, scan, agent, others>>

\* The guest stores a byte to its own memory (i32.store8); out of range traps.
GuestStore(c) ==
    /\ AtOp(c, "store")
    /\ inv' = IF CurOp(c).a >= 0 /\ CurOp(c).a < Len(inv[c].mem)
              THEN [inv EXCEPT ![c].ip = @ + 1,
                               ![c].mem = [@ EXCEPT ![CurOp(c).a + 1] = CurOp(c).b]]
              ELSE [Fail(c, "trap") EXCEPT ![c].result = TrapResult(inv[c].out)]
    /\ UNCHANGED <<skillsDir, modules, loadResult, scan, agent, others>>

\* The guest executes unreachable: instantiate or call returns the trap.
GuestTrap(c) ==
    /\ AtOp(c, "trap")
    /\ inv' = [Fail(c, "trap") EXCEPT ![c].result = TrapResult(inv[c].out)]
    /\ UNCHANGED <<skillsDir, modules, loadResult, scan, agent, others>>

\* The guest is in a loop that does not end: nothing changes, and nothing
\* interrupts it (call.call has no deadline, plugin_engine.rs:140,143).
GuestLoop(c) ==
    /\ AtOp(c, "loop")
    /\ UNCHANGED vars

\* The running function returns: the start function to instantiate, the
\* entry point to call_skill.
GuestReturn(c) ==
    /\ Running(c)
    /\ inv[c].ip = Len(CurCode(c))
    /\ inv' = [inv EXCEPT ![c].pc = IF inv[c].fn = "start" THEN "Invoke" ELSE "Drain",
                          ![c].fn = "none", ![c].ip = 0]
    /\ UNCHANGED <<skillsDir, modules, loadResult, scan, agent, others>>

\* plugin_engine.rs:147-148.
Drain(c) ==
    /\ inv[c].pc = "Drain"
    /\ inv' = [inv EXCEPT ![c].pc = "Done", ![c].result = Ok(inv[c].out)]
    /\ UNCHANGED <<skillsDir, modules, loadResult, scan, agent, others>>

\* A variant of Exclusive that lets load_skills run at any time.
NeverExclusive == TRUE

\* load_skills takes &mut self: it runs only while no call_skill borrows
\* the engine.
Exclusive == \A c \in Callers : ~InProgress(c)

\* PluginEngine::load_skills is entered (plugin_engine.rs:43-45):
\* create_dir_all, and read_dir lists the directory.  The engine that a
\* ProjectScannerAgent owns is loaded once, by ProjectScannerAgent::new.
LoadSkills ==
    /\ Exclusive
    /\ scan.pc = "idle"
    /\ agent.pc = "none" \/ (agent.pc = "new" /\ loadResult = "none")
    /\ scan' = [pc |-> "entry", todo |-> skillsDir, old |-> modules,
                quiet |-> TRUE, again |-> loadResult # "none" /\ scan.quiet]
    /\ UNCHANGED <<skillsDir, modules, loadResult, inv, agent, others>>

\* plugin_engine.rs:46-50, 63: the loop takes the next listed entry, the
\* one with the least place, and is_file looks at what the path names now;
\* an entry that is no regular file (or is gone), or whose extension is
\* neither wasm nor wat, is passed over.  After the last entry load_skills
\* returns Ok.
LoadEntry ==
    /\ scan.pc = "entry"
    /\ IF scan.todo = {}
       THEN /\ loadResult' = "ok"
            /\ scan' = [scan EXCEPT !.pc = "idle", !.old = <<>>]
       ELSE LET e   == CHOOSE f \in scan.todo : \A g \in scan.todo : f.pos <= g.pos
                now == {f \in skillsDir : f.stem = e.stem /\ f.utf8 = e.utf8 /\ f.ext = e.ext}
            IN  /\ loadResult' = loadResult
                /\ scan' = IF Recognized(now) # {}
                           THEN [scan EXCEPT !.pc = "compile"]
                           ELSE [scan EXCEPT !.todo = @ \ {e}]
    /\ UNCHANGED <<skillsDir, modules, inv, agent, others>>

\* plugin_engine.rs:52-53, 56-59: the file is read as the path names it
\* now and compiled, and the module is inserted under the entry's name; when
\* the file is gone, or does not compile, the ? returns the error from
\* load_skills, with the modules inserted so far in the registry.
LoadCompile ==
    /\ scan.pc = "compile"
    /\ LET e   == CHOOSE f \in scan.todo : \A g \in scan.todo : f.pos <= g.pos
           now == {f \in skillsDir : f.stem = e.stem /\ f.utf8 = e.utf8 /\ f.ext = e.ext}
       IN  IF \E f \in now : f.kind = "file" /\ Compiles(f)
           THEN /\ modules' = ModulesInsert(modules, SkillName(e),
                                            (CHOOSE f \in now : TRUE).content)
                /\ loadResult' = loadResult
                /\ scan' = [scan EXCEPT !.pc = "entry", !.todo = @ \ {e}]
           ELSE /\ modules' = modules
                /\ loadResult' = "err"
                /\ scan' = [scan EXCEPT !.pc = "idle", !.todo = {}, !.old = <<>>]
    /\ UNCHANGED <<skillsDir, inv, agent, others>>

\* Someone puts a file into the skills directory, or takes one out of it.
\* The k files of this directory have the places 1..k of the order in which
\* read_dir yields them; a new file takes any place among the files that
\* are there, whose mutual order stays.
AddFile(f) ==
    /\ \A g \in skillsDir : g.stem \in {"a", "broken"} /\ g.pos >= 1
    /\ \A g \in skillsDir : <<g.stem, g.ext>> # <<f.stem, f.ext>>
    /\ f.pos <= Cardinality(skillsDir) + 1
    /\ skillsDir' = {[g EXCEPT !.pos = IF g.pos >= f.pos THEN g.pos + 1 ELSE g.pos] :
                        g \in skillsDir} \cup {f}
    /\ scan' = [scan EXCEPT !.quiet = FALSE, !.again = FALSE]
    /\ UNCHANGED <<modules, loadResult, inv, agent, others>>

RemoveFile(f) ==
    /\ f \in skillsDir
    /\ skillsDir' = {[g EXCEPT !.pos = IF g.pos > f.pos THEN g.pos - 1 ELSE g.pos] :
                        g \in skillsDir \ {f}}
    /\ scan' = [scan EXCEPT !.quiet = FALSE, !.again = FALSE]
    /\ UNCHANGED <<modules, loadResult, inv, agent, others>>

\* The components other than the one named hold nothing.
IdleBut(c) ==
    /\ IF c = "mm" THEN TRUE
       ELSE mm = [dir |-> {}, prev |-> [op |-> "none"], prior |-> [op |-> "none"]]
    /\ IF c = "np" THEN TRUE ELSE np = [path |-> "", state |-> "none"]
    /\ IF c = "lp" THEN TRUE ELSE lp = [child |-> FALSE]
    /\ IF c = "tm" THEN TRUE ELSE tm = [nextId |-> 0]
    /\ IF c = "sa" THEN TRUE ELSE sa = [pc |-> "none"]
    /\ IF c = "sh" THEN TRUE ELSE sh = [maxEntries |-> 0, added |-> 0]

\* PluginEngine::new (plugin_engine.rs:32-40) on one of the directories.
Init ==
    /\ skillsDir \in
          {DirBehaviours,
           {SkillFile(id, "wat", 0, id) : id \in ProbeIds("write") \cup {"hello"}},
           {SkillFile(id, "wat", 0, id) : id \in ProbeIds("readdir") \cup {"hello"}},
           {},
           DirTwins(1),
           DirTwins(2)}
    /\ modules = [n \in {} |-> NoModule]
    /\ loadResult = "none"
    /\ scan = NoScan
    /\ inv = [c \in Callers |-> IdleInv]
    /\ agent = [pc |-> "none"]
    /\ IdleBut("")

Next ==
    \/ LoadSkills
    \/ LoadEntry
    \/ LoadCompile
    \/ \E p \in 1..3 :
         \E f \in {SkillFile("a", "wat", p, "hello"),
                   SkillFile("broken", "wat", p, "(module"),
                   SkillFile("a", "wasm", p, "passive")} :
            AddFile(f) \/ RemoveFile(f)
    \/ \E c \in Callers :
         \/ \E name \in NamesOf(c) : \E input \in InputsOf(c, name) : StartCall(c, name, input)
         \/ Lookup(c)
         \/ Instantiate(c)
         \/ SelectEntry(c)
         \/ HostWriteStep(c)
         \/ HostReaddirStep(c)
         \/ GuestStore(c)
         \/ GuestTrap(c)
         \/ GuestLoop(c)
         \/ GuestReturn(c)
         \/ Drain(c)

Spec == Init /\ [][Next]_vars

---------------------------------------------------------------------------
(* ProjectScannerAgent (project_scanner.rs).  The agent owns its engine;   *)
(* its thread is the engine's caller 1.  agent.pc is where the agent is:   *)
(*   none      no agent was made (the engine is used directly)             *)
(*   new       ProjectScannerAgent::new is about to run                    *)
(*   failed    new returned the error of load_skills: there is no agent    *)
(*   call      run_forever is at the top of its loop                       *)
(*   wait      run_forever is inside call_skill                            *)
(*   sleep     the result is logged, the agent sleeps for interval         *)
(*   returned  run_forever has returned                                    *)

\* A variant of AfterCall that returns the error from run_forever.
AfterCallPropagate(result) == IF result.kind = "err" THEN "returned" ELSE "sleep"

\* project_scanner.rs:34-43: both arms of the match log and fall through to
\* the sleep.
AfterCall(result) == "sleep"

\* project_scanner.rs:35-41: info on Ok, warn on Err.
LogLevel(result) == IF result.kind = "ok" THEN "info" ELSE "warn"

\* ProjectScannerAgent::new (project_scanner.rs:13-17): load_skills has
\* returned; its error is the error of new.
AgentNew ==
    /\ agent.pc = "new"
    /\ scan.pc = "idle" /\ loadResult # "none"
    /\ agent' = [agent EXCEPT !.pc = IF loadResult = "ok" THEN "call" ELSE "failed"]
    /\ UNCHANGED <<skillsDir, modules, loadResult, scan, inv, others>>

\* project_scanner.rs:34: call_skill("project_scanner", None) is entered.
AgentCall ==
    /\ agent.pc = "call"
    /\ inv' = [inv EXCEPT ![1] =
                [IdleInv EXCEPT !.pc = "Lookup", !.name = "project_scanner",
                    !.afterOutput = inv[1].pc \in {"Done", "Failed"} /\ inv[1].out # <<>>,
                    !.afterTrap = inv[1].pc = "Failed" /\ inv[1].result = Err("trap")]]
    /\ agent' = [agent EXCEPT !.pc = "wait"]
    /\ UNCHANGED <<skillsDir, modules, loadResult, scan, others>>

\* project_scanner.rs:35-42: call_skill has returned, the result is logged.
AgentLog ==
    /\ agent.pc = "wait"
    /\ inv[1].pc \in {"Done", "Failed"}
    /\ agent' = [agent EXCEPT !.pc = AfterCall(inv[1].result),
                              !.logged = LogLevel(inv[1].result)]
    /\ UNCHANGED <<skillsDir, modules, loadResult, scan, inv, others>>

\* project_scanner.rs:43-44: the sleep is over, the loop starts again.
AgentWake ==
    /\ agent.pc = "sleep"
    /\ agent' = [agent EXCEPT !.pc = "call", !.logged = "none"]
    /\ UNCHANGED <<skillsDir, modules, loadResult, scan, inv, others>>

InitScanner ==
    /\ skillsDir \in
          {{SkillFile("project_scanner", "wat", 0, id)} :
              id \in {"lister", "hello", "mut", "passive", "trapper", "noimport",
                      "badrun", "write(0,-1)", "spin"}}
          \cup {{}, {SkillFile("hello", "wat", 0, "hello")}}
          \cup {{SkillFile("project_scanner", "wat", 0, "hello"),
                 SkillFile("broken", "wat", p, "(module")} : p \in {-1, 1}}
    /\ modules = [n \in {} |-> NoModule]
    /\ loadResult = "none"
    /\ scan = NoScan
    /\ inv = [c \in Callers |-> IdleInv]
    /\ agent = [pc |-> "new", logged |-> "none"]
    /\ IdleBut("")

NextScanner ==
    \/ LoadSkills
    \/ LoadEntry
    \/ LoadCompile
    \/ AgentNew
    \/ AgentCall
    \/ Lookup(1)
    \/ Instantiate(1)
    \/ SelectEntry(1)
    \/ HostWriteStep(1)
    \/ HostReaddirStep(1)
    \/ GuestStore(1)
    \/ GuestTrap(1)
    \/ GuestLoop(1)
    \/ GuestReturn(1)
    \/ Drain(1)
    \/ AgentLog
    \/ AgentWake

\* The agent's thread is scheduled again and again, and its sleep ends.
SpecScanner == InitScanner /\ [][NextScanner]_vars /\ WF_vars(NextScanner)

---------------------------------------------------------------------------
(* A call_skill run on its own, as a function of the module: the reference *)
(* the isolation properties compare an invocation with.                    *)

Config(fn, ip, mem, out) == [fn |-> fn, ip |-> ip, mem |-> mem, out |-> out]

\* Running code from instruction ip on: the configurations passed through,
\* and how the function ends ("ret", "trap", "panic").
RECURSIVE RunFrom(_, _, _, _, _, _)
RunFrom(hasMemory, fn, code, ip, mem, out) ==
    LET here == [at |-> {Config(fn, ip, mem, out)}, ends |-> {}]
        Join(a, b) == [at |-> a.at \cup b.at, ends |-> a.ends \cup b.ends]
        End(status) == [at |-> {Config(fn, ip, mem, out)},
                        ends |-> {[status |-> status, mem |-> mem, out |-> out]}]
    IN  IF ip = Len(code) THEN End("ret")
        ELSE LET op == code[ip + 1]
             IN  CASE op.op = "write" ->
                        LET r == HostWrite(hasMemory, mem, out, op.a, op.b)
                        IN  IF r.status = "panic" THEN End("panic")
                            ELSE Join(here, RunFrom(hasMemory, fn, code, ip + 1, mem, r.out))
                   [] op.op = "readdir" ->
                        LET rs == {HostReaddir(hasMemory, mem, out, op.a, op.b, list) :
                                    list \in ReaddirChoices(hasMemory, mem, op.a, op.b)}
                            next == {RunFrom(hasMemory, fn, code, ip + 1, mem, r.out) :
                                      r \in {x \in rs : x.status = "ok"}}
                        IN  [at |-> {Config(fn, ip, mem, out)}
                                    \cup UNION {n.at : n \in next},
                             ends |-> {[status |-> "panic", mem |-> mem, out |-> out] :
                                         x \in {y \in rs : y.status = "panic"}}
                                      \cup UNION {n.ends : n \in next}]
                   [] op.op = "store" ->
                        IF op.a >= 0 /\ op.a < Len(mem)
                        THEN Join(here, RunFrom(hasMemory, fn, code, ip + 1,
                                                [mem EXCEPT ![op.a + 1] = op.b], out))
                        ELSE End("trap")
                   [] op.op = "loop" -> here
                   [] OTHER -> End("trap")

\* The start function of a fresh instance of m.
AloneStart(m) == RunFrom(m.memory, "start", m.startFn, 0, InitMemory(m), <<>>)

\* The entry point, entered with the context the start function left.
AloneEntry(m, s) ==
    RunFrom(m.memory, PickEntry(m.exports), m.code[PickEntry(m.exports)], 0, s.mem, s.out)

Returns(run) == {e \in run.ends : e.status = "ret"}

\* The contexts [fn, ip, mem, out] an invocation of m passes through while
\* guest code runs or has returned.
AloneConfigs(m) ==
    IF ~m.linkable THEN {}
    ELSE (IF m.startFn # <<>> THEN AloneStart(m).at ELSE {})
         \cup {Config("none", 0, s.mem, s.out) : s \in Returns(AloneStart(m))}
         \cup (IF PickEntry(m.exports) # "none"
                  /\ m.exports[PickEntry(m.exports)] = "func"
               THEN UNION {AloneEntry(m, s).at : s \in Returns(AloneStart(m))}
                    \cup UNION {{Config("none", 0, e.mem, e.out) :
                                   e \in Returns(AloneEntry(m, s))} :
                                 s \in Returns(AloneStart(m))}
               ELSE {})

Outcome(pc, result) == [pc |-> pc, result |-> result]

EndOutcome(e) ==
    CASE e.status = "ret" -> Outcome("Done", Ok(e.out))
      [] e.status = "trap" -> Outcome("Failed", Err("trap"))
      [] OTHER -> Outcome("Panicked", NoResult)

\* How a call of m ends when it runs alone on a fresh context.
AloneOutcomes(m) ==
    IF ~m.linkable THEN {Outcome("Failed", Err("instantiation"))}
    ELSE {EndOutcome(e) : e \in AloneStart(m).ends \ Returns(AloneStart(m))}
         \cup UNION {
                IF PickEntry(m.exports) = "none" THEN {Outcome("Done", Ok(s.out))}
                ELSE IF m.exports[PickEntry(m.exports)] = "badsig"
                THEN {Outcome("Failed", Err("type mismatch"))}
                ELSE {EndOutcome(e) : e \in AloneEntry(m, s).ends}
                : s \in Returns(AloneStart(m)) }

Ended(c) == inv[c].pc \in {"Done", "Failed", "Panicked"}

\* The invocation holds an instance: instantiate has reached the start
\* function or has returned.
HasInstance(c) ==
    \/ inv[c].pc = "Instantiate" /\ inv[c].fn = "start"
    \/ inv[c].pc \in {"Invoke", "Drain"}

---------------------------------------------------------------------------
(* C1: call_skill of a name that is not a key of the registry returns the  *)
(* "skill not found" error: the lookup step is never blocked, and it takes *)
(* the invocation straight to Failed with that error, with no context      *)
(* constructed, no guest function entered and no capability call made, in  *)
(* every registry state.                                                   *)
C1_MissingSkillFails ==
    /\ [](\A c \in Callers : inv[c].pc = "Lookup" => ENABLED Lookup(c))
    /\ [][\A c \in Callers :
            (inv[c].pc = "Lookup" /\ inv[c].name \notin DOMAIN modules /\ inv'[c] # inv[c])
            => /\ inv'[c].pc = "Failed"
               /\ inv'[c].result = Err("skill not found")
               /\ ~inv'[c].ctx
               /\ inv'[c].fn = "none"
               /\ inv'[c].calls = <<>>
               /\ inv'[c].log = <<>>
               /\ inv'[c].out = <<>>]_vars

\* On a loaded registry, a call of the stem of an ignored file and a call of
\* a name no file has both failed at the lookup.
C1_Witness ==
    /\ modules # [n \in {} |-> NoModule]
    /\ inv[1].pc = "Failed" /\ inv[1].failedAt = "Lookup" /\ inv[1].name = "notes"
    /\ inv[1].result = Err("skill not found")
    /\ inv[2].pc = "Failed" /\ inv[2].failedAt = "Lookup" /\ inv[2].name = "nosuch"

---------------------------------------------------------------------------
(* C2: when every capability call of an invocation succeeded (a write      *)
(* whose range lies in the exported memory, a readdir of an in-range path  *)
(* that names a readable directory), the returned string is the            *)
(* concatenation, in call order, of what each call emitted: the lossy      *)
(* UTF-8 decoding of the bytes at [ptr, ptr+len) for a write, the JSON     *)
(* array it built for a readdir.  A single write of an in-range literal    *)
(* returns exactly that literal.                                           *)

InRange(e) == e.a >= 0 /\ e.b >= 0 /\ e.a <= Len(e.mem) /\ e.b <= Len(e.mem) - e.a
BytesAt(e) == [i \in 1..e.b |-> e.mem[e.a + i]]

Succeeded(e) ==
    /\ InRange(e)
    /\ e.op = "readdir" => ReadDirOk(FromUtf8Lossy(BytesAt(e)))

Emitted(e) == IF e.op = "write" THEN FromUtf8Lossy(BytesAt(e)) ELSE ToJson(e.listing)

RECURSIVE ConcatAll(_)
ConcatAll(ss) == IF ss = <<>> THEN <<>> ELSE Head(ss) \o ConcatAll(Tail(ss))

C2_ResultIsConcatenation ==
    \A c \in Callers :
        (inv[c].pc = "Done" /\ \A i \in 1..Len(inv[c].log) : Succeeded(inv[c].log[i]))
        => /\ inv[c].result.val = ConcatAll([i \in 1..Len(inv[c].log) |-> Emitted(inv[c].log[i])])
           /\ inv[c].name = "hello" => inv[c].result = Ok(<<72, 105, 33>>)
           /\ inv[c].name = "utf8" => inv[c].result = Ok(<<233, 65533, 40, 65533>>)

\* The lister guest has returned ">", the listing of d and ">" in that
\* order, and the hello guest its literal.
C2_Witness ==
    /\ inv[1].pc = "Done" /\ inv[1].name = "lister"
    /\ inv[1].result.val = <<62>> \o ToJson(<<NameB, NameS, NameA>>) \o <<62>>
    /\ inv[2].pc = "Done" /\ inv[2].name = "hello"
    /\ inv[2].result.val = <<72, 105, 33>>

---------------------------------------------------------------------------
(* C3: in any sequence of calls on one engine, every call starts with an   *)
(* empty accumulator and a fresh instance: before its first capability     *)
(* call returns the accumulator is empty, and a call made after an earlier *)
(* call (successful, failed or trapped) had emitted output ends as the     *)
(* same call ends when it is the first one, even when it writes nothing.   *)
C3_CallsAreIndependent ==
    \A c \in Callers :
        /\ (inv[c].ctx /\ InProgress(c) /\ inv[c].log = <<>>) => inv[c].out = <<>>
        /\ (inv[c].afterOutput /\ Ended(c))
           => IF inv[c].module = NoModule
              THEN Outcome(inv[c].pc, inv[c].result) = Outcome("Failed", Err("skill not found"))
              ELSE Outcome(inv[c].pc, inv[c].result) \in AloneOutcomes(ModuleTable[inv[c].module])

\* After the other thread's call had returned output, the first thread's
\* call of a guest with no entry point returned the empty string.
C3_Witness ==
    /\ inv[1].afterOutput /\ inv[1].pc = "Done" /\ inv[1].name = "passive"
    /\ inv[1].result = Ok(<<>>)
    /\ inv[2].pc = "Done" /\ inv[2].result.val # <<>>

---------------------------------------------------------------------------
(* C4: while two invocations overlap, with their steps interleaved in any  *)
(* order, the context of each (its function, position, memory and          *)
(* accumulator) is one that the same module passes through when it runs    *)
(* alone, so each accumulator holds its own guest's output only and what   *)
(* is drained is what the call returns alone.                              *)
C4_ConcurrentCallsDoNotInterfere ==
    \A c \in Callers :
        (HasInstance(c) /\ \E d \in Callers \ {c} : InProgress(d))
        => /\ Config(inv[c].fn, inv[c].ip, inv[c].mem, inv[c].out)
                \in AloneConfigs(ModuleTable[inv[c].module])
           /\ inv[c].pc = "Drain"
              => Outcome("Done", Ok(inv[c].out)) \in AloneOutcomes(ModuleTable[inv[c].module])

\* Two overlapping invocations of different guests have both run all their
\* callbacks and are about to drain accumulators that differ.
C4_Witness ==
    /\ inv[1].pc = "Drain" /\ inv[1].name = "utf8" /\ inv[1].out = <<233, 65533, 40, 65533>>
    /\ inv[2].pc = "Drain" /\ inv[2].name = "lister"
    /\ inv[2].out = <<62>> \o ToJson(<<NameA, NameB, NameS>>) \o <<62>>

---------------------------------------------------------------------------
(* C5: a host.write whose range [ptr, ptr+len) is not inside the exported  *)
(* memory, or whose guest exports no memory, is a no-op: the accumulator   *)
(* is unchanged and the guest continues with its next instruction.         *)

\* The range [ptr, ptr+len) of the capability call the guest is at lies in
\* its memory; a negative ptr or len is out of range.
OpInRange(c) ==
    /\ CurOp(c).a >= 0 /\ CurOp(c).b >= 0
    /\ CurOp(c).a <= Len(inv[c].mem)
    /\ CurOp(c).b <= Len(inv[c].mem) - CurOp(c).a

\* The step of c returned to the guest: the same function goes on at the
\* next instruction.
BackInGuest(c) ==
    /\ inv'[c].pc = inv[c].pc
    /\ inv'[c].fn = inv[c].fn
    /\ inv'[c].ip = inv[c].ip + 1

C5_BadWriteIsNoOp ==
    [][\A c \in Callers :
        (AtOp(c, "write") /\ (~CurModule(c).memory \/ ~OpInRange(c)) /\ inv'[c] # inv[c])
        => BackInGuest(c) /\ inv'[c].out = inv[c].out]_vars

---------------------------------------------------------------------------
(* C6: for every (ptr, len) passed to host.write or host.readdir, negative *)
(* values included, the callback returns control to the guest, and a       *)
(* negative ptr or len leaves the accumulator as it was.                   *)
C6_CallbackAlwaysReturns ==
    [][\A c \in Callers :
        ((AtOp(c, "write") \/ AtOp(c, "readdir")) /\ inv'[c] # inv[c])
        => /\ BackInGuest(c)
           /\ (CurOp(c).a < 0 \/ CurOp(c).b < 0) => inv'[c].out = inv[c].out]_vars

---------------------------------------------------------------------------
(* C7: a host.readdir whose in-range path does not name a readable         *)
(* directory appends nothing: the accumulator is the same after the call,  *)
(* and the guest continues.                                                *)
C7_UnreadableDirAppendsNothing ==
    [][\A c \in Callers :
        (/\ AtOp(c, "readdir") /\ CurModule(c).memory /\ OpInRange(c)
         /\ ~ReadDirOk(FromUtf8Lossy([i \in 1..CurOp(c).b |-> inv[c].mem[CurOp(c).a + i]]))
         /\ inv'[c] # inv[c])
        => BackInGuest(c) /\ inv'[c].out = inv[c].out]_vars

---------------------------------------------------------------------------
(* Reading a JSON array of strings back, to state what a listing holds.    *)

HexValue(d) ==
    IF d >= 48 /\ d <= 57 THEN d - 48
    ELSE IF d >= 97 /\ d <= 102 THEN d - 87
    ELSE IF d >= 65 /\ d <= 70 THEN d - 55
    ELSE 0

Unescaped(e) ==
    CASE e = 98 -> 8
      [] e = 116 -> 9
      [] e = 110 -> 10
      [] e = 102 -> 12
      [] e = 114 -> 13
      [] OTHER -> e

NoParse == [ok |-> FALSE, str |-> <<>>, next |-> 0]

\* The string whose opening quote is before position i: its characters and
\* the position after its closing quote.
RECURSIVE ParseChars(_, _, _)
ParseChars(t, i, acc) ==
    IF i > Len(t) THEN NoParse
    ELSE IF t[i] = Quote THEN [ok |-> TRUE, str |-> acc, next |-> i + 1]
    ELSE IF t[i] # Backslash THEN ParseChars(t, i + 1, Append(acc, t[i]))
    ELSE IF i + 1 > Len(t) THEN NoParse
    ELSE IF t[i + 1] # 117 THEN ParseChars(t, i + 2, Append(acc, Unescaped(t[i + 1])))
    ELSE IF i + 5 > Len(t) THEN NoParse
    ELSE ParseChars(t, i + 6,
            Append(acc, HexValue(t[i + 2]) * 4096 + HexValue(t[i + 3]) * 256
                        + HexValue(t[i + 4]) * 16 + HexValue(t[i + 5])))

\* The items from position i to the closing bracket, which ends the text.
RECURSIVE ParseItems(_, _, _)
ParseItems(t, i, acc) ==
    IF i > Len(t) \/ t[i] # Quote THEN [ok |-> FALSE, list |-> <<>>]
    ELSE LET r == ParseChars(t, i + 1, <<>>)
         IN  IF ~r.ok \/ r.next > Len(t) THEN [ok |-> FALSE, list |-> <<>>]
             ELSE IF t[r.next] = 93
             THEN [ok |-> r.next = Len(t), list |-> Append(acc, r.str)]
             ELSE IF t[r.next] = 44 THEN ParseItems(t, r.next + 1, Append(acc, r.str))
             ELSE [ok |-> FALSE, list |-> <<>>]

ParseJsonArray(t) ==
    IF t = <<91, 93>> THEN [ok |-> TRUE, list |-> <<>>]
    ELSE IF Len(t) < 2 \/ t[1] # 91 THEN [ok |-> FALSE, list |-> <<>>]
    ELSE ParseItems(t, 2, <<>>)

\* What the step of c appended to its accumulator (which it only extended).
Extended(c) == /\ Len(inv'[c].out) >= Len(inv[c].out)
               /\ SubSeq(inv'[c].out, 1, Len(inv[c].out)) = inv[c].out
Appended(c) == SubSeq(inv'[c].out, Len(inv[c].out) + 1, Len(inv'[c].out))

\* The path the readdir call of c reads from its memory.
OpPath(c) == FromUtf8Lossy([i \in 1..CurOp(c).b |-> inv[c].mem[CurOp(c).a + i]])

\* c is at a readdir whose in-range path names a readable directory, and
\* takes the step.
ListsDirectory(c) ==
    /\ AtOp(c, "readdir") /\ CurModule(c).memory /\ OpInRange(c)
    /\ ReadDirOk(OpPath(c))
    /\ inv'[c] # inv[c]

\* The text is one JSON array that holds the name of each of the entries
\* once and nothing else.
IsListingOf(text, entries) ==
    LET p == ParseJsonArray(text)
    IN  /\ p.ok
        /\ Len(p.list) = Cardinality(entries)
        /\ {p.list[i] : i \in 1..Len(p.list)} = {FromUtf8Lossy(e) : e \in entries}

---------------------------------------------------------------------------
(* C8, as stated: a readdir of a readable directory appends one JSON array *)
(* holding the name of every immediate entry of the directory once.        *)
C8_ListsEveryEntry ==
    [][\A c \in Callers :
        ListsDirectory(c)
        => /\ BackInGuest(c) /\ Extended(c)
           /\ IsListingOf(Appended(c), HostFs[OpPath(c)].entries)]_vars

(* C8, amended: a readdir of a readable directory appends one JSON array   *)
(* holding, once each and in no particular order, the names of the         *)
(* immediate entries whose names are valid UTF-8; an entry whose name is   *)
(* not valid UTF-8 is left out, and so are the entries of nested           *)
(* directories.                                                            *)
C8_ListsUtf8Entries ==
    [][\A c \in Callers :
        ListsDirectory(c)
        => /\ BackInGuest(c) /\ Extended(c)
           /\ IsListingOf(Appended(c), {e \in HostFs[OpPath(c)].entries : OsStrIsUtf8(e)})
           /\ OpPath(c) = <<100>>
              => \E i, j \in 1..3 : /\ ParseJsonArray(Appended(c)).list[i] = NameA
                                    /\ ParseJsonArray(Appended(c)).list[j] = NameB]_vars

\* The listing of d, holding a.txt and b.txt, and the listing of x, without
\* the entry whose name is not UTF-8, have been returned.
C8_Witness ==
    /\ inv[2].pc = "Done" /\ inv[2].name = "lister"
    /\ inv[2].result.val = <<62, 91, 34>> \o NameS \o <<34, 44, 34>> \o NameA
                           \o <<34, 44, 34>> \o NameB \o <<34, 93, 62>>
    /\ inv[1].pc = "Done" /\ inv[1].name = "xlister"
    /\ inv[1].result.val = <<91, 34, 113, 92, 34, 34, 93>>

---------------------------------------------------------------------------
(* The entry point has been selected (or found missing) in this call.      *)
Selected(c) ==
    \/ inv[c].pc = "Invoke" /\ inv[c].fn # "none"
    \/ inv[c].pc \in {"Drain", "Done"}
    \/ inv[c].pc \in {"Failed", "Panicked"} /\ inv[c].failedAt = "Invoke"

Exports(c) == ModuleTable[inv[c].module].exports
Called(c, fn) == \E i \in 1..Len(inv[c].calls) : inv[c].calls[i] = fn

(* C9, as stated: at most one entry point is invoked per call; an instance *)
(* that exports run has run called exactly once and _start never; _start   *)
(* is called only when no export named run exists.                         *)
C9_RunWheneverExported ==
    \A c \in Callers :
        /\ Len(inv[c].calls) <= 1
        /\ (Selected(c) /\ Exports(c)["run"] # "none") => inv[c].calls = <<"run">>
        /\ Called(c, "_start") => Exports(c)["run"] = "none"

(* C9, amended: at most one entry point is invoked per call; an instance   *)
(* that exports a function run of type () -> () has run called exactly     *)
(* once and _start never, even when both are exported; when the exported   *)
(* function run has another type the call fails and calls neither; _start  *)
(* is called, exactly once, only when no function named run is exported.   *)
C9_OneEntryPoint ==
    \A c \in Callers :
        /\ Len(inv[c].calls) <= 1
        /\ (Selected(c) /\ Exports(c)["run"] = "func") => inv[c].calls = <<"run">>
        /\ (Selected(c) /\ Exports(c)["run"] = "badsig")
           => inv[c].calls = <<>> /\ inv[c].pc = "Failed"
        /\ Called(c, "_start") => Exports(c)["run"] \in {"none", "other"}
        /\ (Selected(c) /\ Exports(c)["run"] \in {"none", "other"}
                /\ Exports(c)["_start"] = "func") => inv[c].calls = <<"_start">>

\* A guest exporting both entry points has returned what run writes, with
\* run the one call made.
C9_Witness ==
    /\ inv[1].pc = "Done" /\ inv[1].name = "both"
    /\ inv[1].calls = <<"run">> /\ inv[1].result = Ok(<<114>>)

---------------------------------------------------------------------------
NoEntryPoint(c) == Exports(c)["run"] = "none" /\ Exports(c)["_start"] = "none"

(* C10, as stated: a module that exports neither run nor _start and        *)
(* instantiates successfully returns Ok with the empty string.             *)
C10_NoEntryGivesEmpty ==
    \A c \in Callers :
        (inv[c].module # NoModule /\ NoEntryPoint(c) /\ Selected(c))
        => /\ inv[c].pc \in {"Drain", "Done"}
           /\ inv[c].pc = "Done" => inv[c].result = Ok(<<>>)

(* C10, amended: a module that exports neither run nor _start and          *)
(* instantiates successfully returns Ok, never an error; the string is     *)
(* empty when the module has no start function, and otherwise is what its  *)
(* start function emitted through the capabilities during instantiation.   *)
C10_NoEntryGivesStartOutput ==
    \A c \in Callers :
        (inv[c].module # NoModule /\ NoEntryPoint(c) /\ Selected(c))
        => /\ inv[c].pc \in {"Drain", "Done"}
           /\ inv[c].pc = "Done"
              => /\ inv[c].result.kind = "ok"
                 /\ inv[c].result.val \in
                        {s.out : s \in Returns(AloneStart(ModuleTable[inv[c].module]))}
                 /\ ModuleTable[inv[c].module].startFn = <<>> => inv[c].result = Ok(<<>>)

\* A guest with no entry point and no start function has returned the empty
\* string, after an earlier call had emitted output.
C10_Witness ==
    /\ inv[2].pc = "Done" /\ inv[2].name = "passive" /\ inv[2].result = Ok(<<>>)
    /\ inv[2].calls = <<>>
    /\ inv[1].pc = "Done" /\ inv[1].name = "ctor" /\ inv[1].result = Ok(<<99>>)

---------------------------------------------------------------------------
(* C11: when the guest traps, call_skill returns the trap as an error,     *)
(* never Ok and never the output accumulated before the trap; the step     *)
(* changes neither the registry nor any other invocation, the calling      *)
(* thread can call again (once no load_skills is running), and a call made *)
(* after a trapped call ends as the same call ends when run alone.         *)

\* The step c is about to take is a trap: unreachable, or a store outside
\* its memory.
AboutToTrap(c) ==
    \/ AtOp(c, "trap")
    \/ AtOp(c, "store") /\ ~(CurOp(c).a >= 0 /\ CurOp(c).a < Len(inv[c].mem))

C11_TrapFailsOnlyThatCall ==
    /\ [][\A c \in Callers :
            (AboutToTrap(c) /\ inv'[c] # inv[c])
            => /\ inv'[c].pc = "Failed"
               /\ inv'[c].result = Err("trap")
               /\ modules' = modules
               /\ \A d \in Callers \ {c} : inv'[d] = inv[d]]_vars
    /\ [](\A c \in Callers :
            /\ (inv[c].result = Err("trap") /\ scan.pc = "idle")
               => ENABLED (\E name \in NamesOf(c) : StartCall(c, name, [some |-> FALSE, str |-> <<>>]))
            /\ (inv[c].afterTrap /\ Ended(c))
               => IF inv[c].module = NoModule
                  THEN Outcome(inv[c].pc, inv[c].result)
                        = Outcome("Failed", Err("skill not found"))
                  ELSE Outcome(inv[c].pc, inv[c].result)
                        \in AloneOutcomes(ModuleTable[inv[c].module]))

\* The trapper guest had written "t" when it trapped, and its call returned
\* the trap; the call of the same guest made after it, on the same engine,
\* ended in the same way, and the other thread's call of hello made after
\* the trap returned hello's literal.
C11_Witness ==
    /\ inv[1].pc = "Failed" /\ inv[1].name = "trapper" /\ inv[1].afterTrap
    /\ inv[1].result = Err("trap") /\ inv[1].out = <<116>>
    /\ inv[2].pc = "Done" /\ inv[2].name = "hello" /\ inv[2].afterTrap
    /\ inv[2].result = Ok(<<72, 105, 33>>)

---------------------------------------------------------------------------
(* C12: when instantiation of the looked-up module fails (an import the    *)
(* linker does not define, or a trap in the start function), call_skill    *)
(* returns an error, no entry point is invoked in that call and no output  *)
(* is returned; a call of a module with an unresolved import fails in      *)
(* Instantiate before any guest code runs.                                 *)
C12_InstantiationFailureIsAnError ==
    \A c \in Callers :
        /\ (inv[c].pc = "Failed" /\ inv[c].failedAt = "Instantiate")
           => /\ inv[c].result.kind = "err"
              /\ inv[c].result.val = <<>>
              /\ inv[c].calls = <<>>
        /\ (inv[c].module # NoModule /\ ~ModuleTable[inv[c].module].linkable
                /\ (inv[c].ctx \/ Ended(c)))
           => /\ inv[c].pc = "Failed" /\ inv[c].failedAt = "Instantiate"
              /\ inv[c].result = Err("instantiation")
              /\ inv[c].log = <<>> /\ inv[c].out = <<>>

\* The call of the guest with an unresolved import has failed in
\* Instantiate, with no entry point called, while the other thread's call
\* of hello went on to return.
C12_Witness ==
    /\ inv[1].pc = "Failed" /\ inv[1].name = "noimport"
    /\ inv[1].failedAt = "Instantiate" /\ inv[1].result = Err("instantiation")
    /\ inv[1].calls = <<>>
    /\ inv[2].pc = "Done" /\ inv[2].name = "hello"

---------------------------------------------------------------------------
(* C13, as stated: after every successful load_skills the registered names *)
(* are exactly the names of the recognized files that the scan found in    *)
(* the directory, so that the skill of a file removed since the previous   *)
(* load is no longer registered (for a load during which the directory    *)
(* stayed as it was listed).                                               *)
C13_ReloadReplaces ==
    (loadResult = "ok" /\ scan.pc = "idle" /\ scan.quiet)
    => DOMAIN modules = SkillNames(Recognized(skillsDir))

---------------------------------------------------------------------------
(* C14, as stated: a load_skills that returns an error leaves the registry *)
(* exactly as it was before the call: in the step in which load_skills     *)
(* returns an error the registry is the one the load began with.           *)
C14_FailedLoadLeavesRegistry ==
    [][(scan.pc # "idle" /\ scan'.pc = "idle" /\ loadResult' = "err")
         => modules' = scan.old]_vars

---------------------------------------------------------------------------
(* C15: load_skills is idempotent over an unchanged directory: a load     *)
(* that follows a load in succession, the directory being as the first     *)
(* listed it and changed during neither, returns with the registry, and so *)
(* the outcome of every call_skill(name), as the first left it, and        *)
(* returns what the first returned.                                        *)
C15_LoadIsIdempotent ==
    [][(scan.pc # "idle" /\ scan'.pc = "idle" /\ scan.again /\ scan'.quiet)
         => (modules' = scan.old /\ loadResult' = loadResult)]_vars

\* load_skills has run twice in succession on a directory with two files of
\* one name, and a call of that name has returned since.
C15_Witness ==
    /\ scan.pc = "idle" /\ scan.again /\ scan.quiet /\ loadResult = "ok"
    /\ skillsDir = {SkillFile("a", "wat", 1, "hello"), SkillFile("a", "wasm", 2, "passive")}
    /\ inv[1].pc = "Done" /\ inv[1].name = "a"

---------------------------------------------------------------------------
(* C16, as stated: a successful load_skills registers one skill for each   *)
(* immediate regular file with extension wasm or wat, under the file's     *)
(* stem, and that skill is the file's module (for a load during which the  *)
(* directory stayed as it was listed).                                     *)
C16_OneSkillPerFile ==
    (loadResult = "ok" /\ scan.pc = "idle" /\ scan.quiet)
    => \A f \in skillsDir :
          (f.kind = "file" /\ f.ext \in {"wasm", "wat"})
          => f.stem \in DOMAIN modules /\ modules[f.stem] = f.content

(* C16, amended: a successful load_skills, during which the directory     *)
(* stayed as it was listed, registers every immediate                      *)
(* regular file with extension wasm or wat under its stem, or under the    *)
(* name "skill" when the stem is not valid UTF-8; files that share a name  *)
(* register one skill, the module of one of them; the load registers       *)
(* nothing for any other file or for a subdirectory; and a lookup of a     *)
(* registered name does not yield "skill not found".                       *)
RegisteredAs(f) == IF f.utf8 THEN f.stem ELSE "skill"
WasmOrWat(f) == f.kind = "file" /\ f.ext \in {"wasm", "wat"}

C16_RegistersRecognizedFiles ==
    [][/\ (loadResult' = "ok" /\ scan'.pc = "idle" /\ scan'.quiet)
          => \A f \in skillsDir' :
                  WasmOrWat(f)
                  => /\ RegisteredAs(f) \in DOMAIN modules'
                     /\ \E g \in skillsDir' :
                           /\ WasmOrWat(g) /\ RegisteredAs(g) = RegisteredAs(f)
                           /\ modules'[RegisteredAs(f)] = g.content
       /\ \A n \in DOMAIN modules' \ DOMAIN modules :
            \E f \in skillsDir : WasmOrWat(f) /\ n = RegisteredAs(f)
       /\ \A c \in Callers :
            (inv[c].pc = "Lookup" /\ inv[c].name \in DOMAIN modules /\ inv'[c] # inv[c])
            => inv'[c].pc = "Instantiate" /\ inv'[c].module = modules[inv[c].name]]_vars

\* After a load of the directory that holds a text file, a subdirectory
\* named sub.wat and a file whose stem is not UTF-8, the call of "skill" has
\* run that file's module and the call of "sub" has not found a skill.
C16_Witness ==
    /\ loadResult = "ok" /\ scan.pc = "idle" /\ scan.quiet /\ skillsDir = DirBehaviours
    /\ "notes" \notin DOMAIN modules /\ "sub" \notin DOMAIN modules
    /\ inv[1].pc = "Done" /\ inv[1].name = "skill" /\ inv[1].result = Ok(<<72, 105, 33>>)
    /\ inv[2].pc = "Done" /\ inv[2].name = "hello"

---------------------------------------------------------------------------
(* C17: a lookup never sees a rebuild in progress, and the registry is     *)
(* never modified while an invocation that read it is running: the mapping *)
(* changes only in a load_skills step, no step of an invocation is taken   *)
(* and no invocation is in progress from the step that enters load_skills  *)
(* to the step in which it returns, and as long as an invocation runs the  *)
(* registry maps its name to the module it resolved.                       *)
C17_NoRebuildUnderACall ==
    /\ [][/\ modules' # modules
               => /\ \A c \in Callers : ~InProgress(c)
                  /\ inv' = inv
                  /\ scan.pc = "compile"
          /\ (scan.pc # "idle" \/ scan'.pc # "idle")
               => /\ \A c \in Callers : ~InProgress(c)
                  /\ inv' = inv]_vars
    /\ [](\A c \in Callers :
            (InProgress(c) /\ inv[c].module # NoModule)
            => /\ inv[c].name \in DOMAIN modules
               /\ modules[inv[c].name] = inv[c].module)

\* A call of "a" resolved the module of a.wat and returned; a later
\* load_skills has replaced the module registered under "a".
C17_Witness ==
    /\ inv[1].pc = "Done" /\ inv[1].name = "a" /\ inv[1].module = "hello"
    /\ "a" \in DOMAIN modules /\ modules["a"] = "passive"

---------------------------------------------------------------------------
(* C18: the outcome of call_skill does not depend on its input: whatever   *)
(* input is passed, the context the guest runs in is one the module passes *)
(* through on a fresh instance, and the call ends as the registry entry    *)
(* alone determines (skill not found for a missing name).                  *)
C18_InputIsIgnored ==
    \A c \in Callers :
        /\ HasInstance(c)
           => Config(inv[c].fn, inv[c].ip, inv[c].mem, inv[c].out)
                \in AloneConfigs(ModuleTable[inv[c].module])
        /\ Ended(c)
           => IF inv[c].module = NoModule
              THEN Outcome(inv[c].pc, inv[c].result) = Outcome("Failed", Err("skill not found"))
              ELSE Outcome(inv[c].pc, inv[c].result)
                    \in AloneOutcomes(ModuleTable[inv[c].module])

\* The call of hello with Some("Z") and the call of hello with None have
\* returned the same string.
C18_Witness ==
    /\ inv[1].pc = "Done" /\ inv[1].name = "hello" /\ inv[1].input = SomeInput(<<90>>)
    /\ inv[2].pc = "Done" /\ inv[2].name = "hello" /\ inv[2].input = [some |-> FALSE, str |-> <<>>]
    /\ inv[1].result = inv[2].result /\ inv[1].result = Ok(<<72, 105, 33>>)

---------------------------------------------------------------------------
(* C19: run_forever never returns because of a skill error: whether        *)
(* call_skill returned Ok or Err the agent logs it and sleeps, without     *)
(* calling the skill a second time in that tick; every call is entered     *)
(* from the top of the loop, which is reached only from the sleep (or from *)
(* new); and unless a call does not return (a host callback panics, or    *)
(* the guest loops for ever), the skill is called infinitely often.        *)
C19_ScannerNeverGivesUp ==
    /\ [](agent.pc # "returned")
    /\ [][/\ (agent.pc = "wait" /\ inv[1].pc \in {"Done", "Failed"} /\ agent' # agent)
             => /\ agent'.pc = "sleep"
                /\ agent'.logged = (IF inv[1].pc = "Done" THEN "info" ELSE "warn")
                /\ inv' = inv
          /\ (inv'[1].pc = "Lookup" /\ inv[1].pc # "Lookup")
             => agent.pc = "call" /\ agent'.pc = "wait"
          /\ (agent'.pc = "call" /\ agent.pc # "call") => agent.pc \in {"new", "sleep"}
          /\ (agent.pc = "sleep" /\ agent' # agent) => agent'.pc = "call" /\ inv' = inv]_vars
    /\ \/ <>(agent.pc = "failed")
       \/ <>(inv[1].pc = "Panicked")
       \/ <>[](inv[1].pc = "Invoke" /\ inv[1].name = "project_scanner"
                /\ inv[1].module = "spin" /\ inv[1].ip = 1)
       \/ []<>(inv[1].pc = "Lookup" /\ agent.pc = "wait")

\* The agent sleeps after a call that trapped, having logged a warning, and
\* that call was itself made after an earlier call had trapped.
C19_Witness ==
    /\ agent.pc = "sleep" /\ agent.logged = "warn"
    /\ inv[1].pc = "Failed" /\ inv[1].result = Err("trap") /\ inv[1].afterTrap

---------------------------------------------------------------------------
(* C20, as stated: an execution of call_skill moves through Lookup,        *)
(* Instantiate, Invoke, Drain, Done in that order, leaves a phase only to  *)
(* the next one or to Failed, ends in Done with Ok or in Failed with Err,  *)
(* and its result is read from the accumulator only in the step out of     *)
(* Drain.                                                                  *)
PhaseSteps ==
    {<<"Lookup", "Instantiate">>, <<"Instantiate", "Invoke">>,
     <<"Invoke", "Drain">>, <<"Drain", "Done">>}
    \cup {<<p, "Failed">> : p \in {"Lookup", "Instantiate", "Invoke", "Drain"}}
    \cup {<<p, "Lookup">> : p \in {"Idle", "Done", "Failed"}}

C20_PhasesInOrder ==
    [][\A c \in Callers :
        /\ inv'[c].pc # inv[c].pc => <<inv[c].pc, inv'[c].pc>> \in PhaseSteps
        /\ inv'[c].pc = "Done" => inv'[c].result.kind = "ok"
        /\ inv'[c].pc = "Failed" => inv'[c].result.kind = "err"
        /\ (inv'[c].result.kind = "ok" /\ inv[c].result.kind # "ok")
           => inv[c].pc = "Drain" /\ inv'[c].result = Ok(inv[c].out)]_vars

---------------------------------------------------------------------------
(* C23: when two recognized files of the directory share a stem, a load    *)
(* of a directory whose files all compile, which stays as it was listed    *)
(* while the load runs, returns Ok and registers under that stem one       *)
(* skill, the module of the one of the two files that the scan visits      *)
(* last.                                                                   *)
C23_LastVisitedWins ==
    (/\ loadResult # "none" /\ scan.pc = "idle" /\ scan.quiet
     /\ \A f \in skillsDir : WasmOrWat(f) => f.content \in DOMAIN ModuleTable)
    => /\ loadResult = "ok"
       /\ \A f, g \in skillsDir :
            (WasmOrWat(f) /\ WasmOrWat(g) /\ f.utf8 /\ g.utf8 /\ f.stem = g.stem
                /\ f.ext # g.ext /\ f.pos < g.pos)
            => /\ f.stem \in DOMAIN modules
               /\ modules[f.stem] = g.content
               /\ modules[f.stem] # f.content

\* x.wat was visited after x.wasm, and the call of x has run the module of
\* x.wat; in the other thread's engine state nothing else is registered.
C23_Witness ==
    /\ skillsDir = DirTwins(1) /\ loadResult = "ok" /\ scan.pc = "idle"
    /\ DOMAIN modules = {"x"}
    /\ inv[1].pc = "Done" /\ inv[1].name = "x" /\ inv[1].module = "hello"
    /\ inv[1].result = Ok(<<72, 105, 33>>)

---------------------------------------------------------------------------
(* C24: call_skill never changes the registry: no step of an invocation,   *)
(* whatever its outcome, changes the mapping, and a step that changes it   *)
(* is a load_skills step that leaves every invocation as it is.            *)
C24_CallLeavesRegistry ==
    [][/\ \A c \in Callers : inv'[c] # inv[c] => modules' = modules
       /\ modules' # modules
          => /\ inv' = inv
             /\ scan.pc = "compile" /\ scan'.pc = "entry"
             /\ scan'.todo # scan.todo]_vars

\* Calls have ended in a trap and in "skill not found" on a loaded
\* registry that still holds every skill of the directory.
C24_Witness ==
    /\ loadResult = "ok" /\ scan.pc = "idle" /\ scan.quiet /\ skillsDir = DirBehaviours
    /\ DOMAIN modules = DOMAIN BehaviourModules \cup {"skill"}
    /\ inv[1].pc = "Failed" /\ inv[1].name = "trapper" /\ inv[1].result = Err("trap")
    /\ inv[2].pc = "Failed" /\ inv[2].name = "nosuch"

---------------------------------------------------------------------------
(* C25, as stated: every host callback returns, so a call_skill that has   *)
(* not reached Done or Failed and whose guest is not in an endless loop    *)
(* always has a next step towards them; the agent blocked in a call of a   *)
(* guest that never returns makes no further tick.                         *)
CallStep(c) ==
    \/ Lookup(c) \/ Instantiate(c) \/ SelectEntry(c) \/ HostWriteStep(c)
    \/ HostReaddirStep(c) \/ GuestStore(c) \/ GuestTrap(c) \/ GuestReturn(c) \/ Drain(c)

C25_CallTerminates ==
    /\ [](\A c \in Callers :
            (inv[c].pc \notin {"Idle", "Done", "Failed"} /\ ~AtOp(c, "loop"))
            => ENABLED CallStep(c))
    /\ [][(agent.pc = "wait" /\ AtOp(1, "loop")) => (agent' = agent /\ inv' = inv)]_vars

\* ---------------------------------------------------------------------
\* models/manager.rs: the ModelManager and its directory of model files
\* ---------------------------------------------------------------------

\* A directory entry: its file name split as Path::file_stem / extension
\* split it, whether the stem is valid UTF-8, whether it is a regular file
\* or a subdirectory, and the place at which read_dir yields it (the k
\* entries of a directory have the places 1..k).  The order of read_dir is
\* the file system's: an entry that enters the directory takes any place
\* among the entries that are there, whose mutual order stays.
ModelEntry(stem, utf8, ext, kind, pos) ==
    [stem |-> stem, utf8 |-> utf8, ext |-> ext, kind |-> kind, pos |-> pos]

\* The entries that occur, each at any of the places 1..5.
ModelEntries ==
    UNION {{ModelEntry("tiny", TRUE, "gguf", "file", p),
            ModelEntry("tiny", TRUE, "bin", "file", p),
            ModelEntry("odd", FALSE, "gguf", "file", p),
            ModelEntry("model", TRUE, "GGUF", "file", p),
            ModelEntry("sub", TRUE, "", "dir", p),
            ModelEntry("sub", TRUE, "", "file", p)} : p \in 1..5}

\* The file name of an entry; a directory holds one entry per file name.
FileName(f) == <<f.stem, f.utf8, f.ext>>

\* The paths import is called with: regular files outside the directory,
\* and a path at which nothing exists.

RemoveNames == {"tiny", "model", "sub", "odd", "none"}

\* str::to_lowercase on the extensions that occur.
ToLowercase(e) == IF e = "GGUF" THEN "gguf" ELSE e

\* format of a ModelInfo: the lowercased extension, "unknown" without one.
ModelFormat(f) == IF f.ext = "" THEN "unknown" ELSE ToLowercase(f.ext)

ModelNameOfStem(f) == f.stem

\* name of a ModelInfo: the stem, "model" when the stem is not UTF-8.
ModelName(f) == IF f.utf8 THEN f.stem ELSE "model"

ModelInfo(f) == [name |-> ModelName(f), path |-> FileName(f), format |-> ModelFormat(f)]

RECURSIVE DiscoverFrom(_)
DiscoverFrom(files) ==
    IF files = {} THEN <<>>
    ELSE LET f == CHOOSE g \in files : \A h \in files : g.pos <= h.pos
         IN <<ModelInfo(f)>> \o DiscoverFrom(files \ {f})

\* discover(): one ModelInfo per regular file, in read_dir order.
Discover(dir) == DiscoverFrom({f \in dir : f.kind = "file"})

\* import(src): the result and the directory afterwards.  File::create
\* truncates a file that is there, which keeps its place (pos), and makes a
\* new entry, at the place pos, when there is none.
ImportOutcome(dir, src, pos) ==
    LET same == {f \in dir : FileName(f) = FileName(src)}
        dest == ModelEntry(src.stem, src.utf8, src.ext, "file", pos)
        rest == {[f EXCEPT !.pos = IF same = {} /\ f.pos >= pos THEN f.pos + 1 ELSE f.pos] :
                    f \in dir \ same}
    IN  IF src.kind = "missing"
        THEN [result |-> Err("source model not found"), dir |-> dir]
        ELSE IF \E f \in same : f.kind = "dir"
        THEN [result |-> Err("io"), dir |-> dir]
        ELSE [result |-> Ok(ModelName(dest)), dir |-> rest \cup {dest}]

\* remove(name): deletes the first discovered model with that name.
RemoveOutcome(dir, name) ==
    LET found  == Discover(dir)
        hits   == {i \in DOMAIN found : found[i].name = name}
    IN  IF hits = {}
        THEN [result |-> Err("model not found"), dir |-> dir]
        ELSE LET first == CHOOSE i \in hits : \A j \in hits : i <= j
                 gone  == CHOOSE f \in dir : FileName(f) = found[first].path
             IN [result |-> Ok(""),
                 dir |-> {[f EXCEPT !.pos = IF f.pos > gone.pos THEN f.pos - 1 ELSE f.pos] :
                             f \in dir \ {gone}}]

ManagerCall(op, arg, out) ==
    [op |-> op, arg |-> arg, result |-> out.result, before |-> mm.dir]

Import(src) ==
    \E pos \in 1..5 :
        LET out == ImportOutcome(mm.dir, src, pos)
        IN  /\ IF \E f \in mm.dir : FileName(f) = FileName(src)
               THEN \E f \in mm.dir : FileName(f) = FileName(src) /\ f.pos = pos
               ELSE pos <= Cardinality(mm.dir) + 1
            /\ mm' = [dir |-> out.dir, prev |-> ManagerCall("import", src, out),
                      prior |-> mm.prev]
            /\ UNCHANGED <<skillsDir, modules, loadResult, scan, inv, agent, np, lp, tm, sa, sh>>

Remove(name) ==
    LET out == RemoveOutcome(mm.dir, name)
    IN  /\ mm' = [dir |-> out.dir, prev |-> ManagerCall("remove", name, out), prior |-> mm.prev]
        /\ UNCHANGED <<skillsDir, modules, loadResult, scan, inv, agent, np, lp, tm, sa, sh>>

EngineIdle ==
    /\ skillsDir = {}
    /\ modules = [n \in {} |-> NoModule]
    /\ loadResult = "none"
    /\ scan = NoScan
    /\ inv = [c \in Callers |-> IdleInv]
    /\ agent = [pc |-> "none"]

\* ModelManager::new on a directory with any of the entries, one entry per
\* file name, in any order.
InitModels ==
    /\ EngineIdle
    /\ IdleBut("mm")
    /\ mm \in {[dir |-> d, prev |-> [op |-> "none"], prior |-> [op |-> "none"]] :
                d \in {e \in UNION {{{[g[p] EXCEPT !.pos = p] : p \in places} :
                                        g \in [places -> {f \in ModelEntries : f.pos = 1}]} :
                                     places \in {1..k : k \in 0..5}} :
                          \A f, g \in e : FileName(f) = FileName(g) => f = g}}

NextModels ==
    \/ \E src \in
            {[stem |-> f.stem, utf8 |-> f.utf8, ext |-> f.ext, kind |-> "file"] :
                f \in {g \in ModelEntries : g.kind = "file"}}
            \cup {[stem |-> "tiny", utf8 |-> TRUE, ext |-> "gguf", kind |-> "missing"]} :
        Import(src)
    \/ \E name \in RemoveNames : Remove(name)

SpecModels == InitModels /\ [][NextModels]_vars

\* ---------------------------------------------------------------------
\* C21
\* ---------------------------------------------------------------------

\* The name discover() reports for a regular file.
DiscoveredAs(f) == IF f.utf8 THEN f.stem ELSE "model"

DiscoveredNamed(dir, n) == {f \in dir : f.kind = "file" /\ DiscoveredAs(f) = n}

CountNamed(list, n) == Cardinality({i \in DOMAIN list : list[i].name = n})

\* The last call was import of an existing file with stem n.
ImportedStem(call, n) ==
    /\ call.op = "import"
    /\ call.arg.kind = "file"
    /\ call.arg.utf8
    /\ call.arg.stem = n

\* No regular file of the directory has stem n.
NoFileHasStem(dir, n) == ~ \E f \in dir : f.kind = "file" /\ f.utf8 /\ f.stem = n

\* No entry of the directory has stem n and no discovered model is named n.
NothingNamed(dir, n) ==
    /\ ~ \E f \in dir : f.utf8 /\ f.stem = n
    /\ DiscoveredNamed(dir, n) = {}

ImportThenRemove(n) ==
    /\ ImportedStem(mm.prior, n)
    /\ mm.prev.op = "remove"
    /\ mm.prev.arg = n

RemoveOfAbsentFails ==
    (mm.prev.op = "remove" /\ DiscoveredNamed(mm.prev.before, mm.prev.arg) = {})
        => (mm.prev.result = Err("model not found") /\ mm.dir = mm.prev.before)

\* C21 as stated: in a directory in which no file has stem n, import of an
\* existing file with stem n and then remove(n) both return Ok, discover()
\* holds exactly one model named n in between and is restored afterwards;
\* remove(n) with no discovered model named n fails and deletes nothing.
C21_AsStated ==
    /\ \A n \in RemoveNames :
        /\ (ImportedStem(mm.prev, n) /\ NoFileHasStem(mm.prev.before, n))
            => (mm.prev.result.kind = "ok" /\ CountNamed(Discover(mm.dir), n) = 1)
        /\ (ImportThenRemove(n) /\ NoFileHasStem(mm.prior.before, n))
            => (/\ mm.prior.result.kind = "ok"
                /\ mm.prev.result.kind = "ok"
                /\ Discover(mm.dir) = Discover(mm.prior.before))
    /\ RemoveOfAbsentFails

\* C21 amended: the same, for a directory in which no entry (file or
\* subdirectory) has stem n and in which no discovered model is named n.
C21_ImportRemoveRoundTrip ==
    /\ \A n \in RemoveNames :
        /\ (ImportedStem(mm.prev, n) /\ NothingNamed(mm.prev.before, n))
            => (mm.prev.result.kind = "ok" /\ CountNamed(Discover(mm.dir), n) = 1)
        /\ (ImportThenRemove(n) /\ NothingNamed(mm.prior.before, n))
            => (/\ mm.prior.result.kind = "ok"
                /\ mm.prev.result.kind = "ok"
                /\ Discover(mm.dir) = Discover(mm.prior.before))
    /\ RemoveOfAbsentFails

C21_Witness ==
    /\ ImportThenRemove("model")
    /\ NothingNamed(mm.prior.before, "model")
    /\ ModelEntry("tiny", TRUE, "gguf", "file", 1) \in mm.dir
    /\ mm.prev.result.kind = "ok"

\* ---------------------------------------------------------------------
\* models/native.rs: the NativeProvider and its shared load state
\* ---------------------------------------------------------------------

\* The tasks that hold a clone of the provider.
Clones == {1, 2}

\* The model paths a provider is created for: stem `test` and an extension,
\* or no extension at all.
ModelPath(some, e) == [some |-> some, ext |-> e]

\* A ModelFormat; Unknown carries the extension.
Format(tag, e) == [tag |-> tag, ext |-> e]

\* ModelFormat::from_extension
FromExtension(e) ==
    LET l == ToLowercase(e)
    IN  IF l = "gguf" THEN Format("Gguf", "")
        ELSE IF l \in {"safetensors", "st"} THEN Format("SafeTensors", "")
        ELSE IF l \in {"ggml", "bin", "pth"} THEN Format("Ggml", "")
        ELSE Format("Unknown", e)

\* NativeModelInfo::from_path, the format field
FormatOfPath(path) ==
    IF path.some THEN FromExtension(path.ext) ELSE Format("Unknown", "unknown")

\* ModelFormat::display_name
DisplayName(f) ==
    IF f.tag = "Gguf" THEN "GGUF (llama.cpp)"
    ELSE IF f.tag = "SafeTensors" THEN "SafeTensors (Hugging Face)"
    ELSE IF f.tag = "Ggml" THEN "GGML (Legacy)"
    ELSE f.ext

\* NativeProvider::is_format_supported
IsFormatSupported(f) == f.tag \in {"Gguf", "SafeTensors"}

\* A LoadState; Error carries its message.
LoadState(tag, msg) == [tag |-> tag, msg |-> msg]

\* mock_inference: provider tag, model name, format, last message.
MockInference(path, messages) ==
    <<"native", "test", DisplayName(FormatOfPath(path)),
      IF messages = <<>> THEN "" ELSE messages[Len(messages)]>>

NativeOk(val) == [kind |-> "ok", val |-> val]
NativeErr(e) == [kind |-> "err", val |-> e]

ChatAnswersAlways(path, state, messages) == NativeOk(MockInference(path, messages))

\* chat: the answer for the state read under the lock.
ChatOutcome(path, state, messages) ==
    IF state.tag = "Loaded" THEN NativeOk(MockInference(path, messages))
    ELSE IF state.tag = "Loading" THEN NativeErr(<<"still loading">>)
    ELSE IF state.tag = "Error" THEN NativeErr(<<"load error", state.msg>>)
    ELSE NativeErr(<<"not loaded">>)

\* load(), line 223: the state becomes Loading.
LoadBegin(c) ==
    /\ np.pc[c] = "idle"
    /\ np' = [np EXCEPT !.state = LoadState("Loading", ""),
                        !.pc[c] = "loading",
                        !.overtaken[c] = FALSE,
                        !.staleLoad = FALSE]
    /\ UNCHANGED <<skillsDir, modules, loadResult, scan, inv, agent, mm, lp, tm, sa, sh>>

\* load(), lines 226-230: an unsupported format ends in Error.
LoadReject(c) ==
    /\ np.pc[c] = "loading"
    /\ ~IsFormatSupported((FormatOfPath(np.path)))
    /\ np' = [np EXCEPT !.state = LoadState("Error", DisplayName((FormatOfPath(np.path)))),
                        !.pc[c] = "idle",
                        !.ret[c] = [op |-> "load",
                                    result |-> NativeErr(<<DisplayName((FormatOfPath(np.path)))>>)],
                        !.staleLoad = FALSE]
    /\ UNCHANGED <<skillsDir, modules, loadResult, scan, inv, agent, mm, lp, tm, sa, sh>>

\* load(), lines 240-251: after the sleep the state becomes Loaded.
LoadFinish(c) ==
    /\ np.pc[c] = "loading"
    /\ IsFormatSupported((FormatOfPath(np.path)))
    /\ np' = [np EXCEPT !.state = LoadState("Loaded", ""),
                        !.pc[c] = "idle",
                        !.ret[c] = [op |-> "load", result |-> NativeOk(<<>>)],
                        !.staleLoad = np.overtaken[c]]
    /\ UNCHANGED <<skillsDir, modules, loadResult, scan, inv, agent, mm, lp, tm, sa, sh>>

\* unload()
Unload(c) ==
    /\ np.pc[c] = "idle"
    /\ np' = [np EXCEPT !.state = LoadState("Unloaded", ""),
                        !.ret[c] = [op |-> "unload", result |-> NativeOk(<<>>)],
                        !.overtaken = [d \in Clones |-> np.overtaken[d] \/ np.pc[d] = "loading"],
                        !.staleLoad = FALSE]
    /\ UNCHANGED <<skillsDir, modules, loadResult, scan, inv, agent, mm, lp, tm, sa, sh>>

\* chat(messages)
Chat(c, messages) ==
    /\ np.pc[c] = "idle"
    /\ np' = [np EXCEPT !.ret[c] = [op |-> "chat",
                                    result |-> ChatOutcome(np.path, np.state, messages)]]
    /\ UNCHANGED <<skillsDir, modules, loadResult, scan, inv, agent, mm, lp, tm, sa, sh>>

\* NativeProvider::new on one of the model paths: the state every clone
\* shares, each clone's position in load(), what each clone's last call
\* returned, and for each clone whether an unload() ran while its load()
\* was in progress.
InitNative ==
    /\ EngineIdle
    /\ IdleBut("np")
    /\ np \in {[path |-> path,
                 state |-> LoadState("Unloaded", ""),
                 pc |-> [c \in Clones |-> "idle"],
                 ret |-> [c \in Clones |-> [op |-> "none", result |-> NativeOk(<<>>)]],
                 overtaken |-> [c \in Clones |-> FALSE],
                 staleLoad |-> FALSE] :
                path \in {ModelPath(TRUE, "gguf"), ModelPath(TRUE, "GGUF"),
                          ModelPath(TRUE, "st"), ModelPath(TRUE, "bin"),
                          ModelPath(TRUE, "txt"), ModelPath(FALSE, "")}}

NextNative ==
    \E c \in Clones :
        \/ LoadBegin(c)
        \/ LoadReject(c)
        \/ LoadFinish(c)
        \/ Unload(c)
        \/ \E messages \in {<<>>, <<"salam">>, <<"salam", "bye">>} : Chat(c, messages)

SpecNative == InitNative /\ [][NextNative]_vars

\* ---------------------------------------------------------------------
\* C22
\* ---------------------------------------------------------------------

\* The path names a gguf or safetensors model.
GgufOrSafetensors(path) == path.some /\ path.ext \in {"gguf", "GGUF", "st"}

Returned22(c, op) == np'.ret[c] # np.ret[c] /\ np'.ret[c].op = op

\* C22: chat answers only in the Loaded state and never changes the state;
\* load() on a gguf or safetensors model returns Ok with the state Loaded,
\* load() on any other format returns Err with the state Error.
C22_ChatOnlyWhenLoaded ==
    [][\A c \in Clones :
        /\ (np.pc[c] = "idle" /\ np'.pc[c] = "idle" /\ Returned22(c, "chat"))
            => (/\ (np'.ret[c].result.kind = "ok") = (np.state.tag = "Loaded")
                /\ np'.state = np.state)
        /\ (np.pc[c] = "loading" /\ np'.pc[c] = "idle")
            => IF GgufOrSafetensors(np.path)
               THEN np'.ret[c].result.kind = "ok" /\ np'.state.tag = "Loaded"
               ELSE np'.ret[c].result.kind = "err" /\ np'.state.tag = "Error"]_vars

C22_Witness ==
    /\ np.state.tag = "Loaded"
    /\ np.path = ModelPath(TRUE, "st")
    /\ np.ret[1].op = "load"
    /\ np.ret[2].op = "chat"
    /\ np.ret[2].result.kind = "ok"

\* ---------------------------------------------------------------------
\* C28
\* ---------------------------------------------------------------------

\* C28, as stated: a load() that was in progress when an unload() ran does
\* not later set the state to Loaded.
C28_UnloadWins == ~(np.state.tag = "Loaded" /\ np.staleLoad)

\* ---------------------------------------------------------------------
\* models/server.rs: LlamaProvider::start and its health probes
\* ---------------------------------------------------------------------

MaxProbes == 12
InitialDelayMs == 200
MaxDelayMs == 3000

NextDelayUncapped(d) == d * 2

\* line 102; a delay of at most 3000 never saturates the u64 product.
NextDelay(d) == IF d * 2 <= MaxDelayMs THEN d * 2 ELSE MaxDelayMs

\* The tasks that call start on the one provider (start takes &self, so a
\* start may be entered while another is in progress).
Starters == {1, 2}

\* A caller that is not inside start.  pc is where its start is:
\*   idle      not called
\*   store     the server is spawned, the child is not yet stored (line 88)
\*   probe     about to probe the health endpoint (line 93)
\*   sleep     the probe failed, about to sleep (line 101)
\*   returned  start has returned result
\* probes counts the probes of the call, last is the answer to the latest,
\* slept the delays slept so far.
NoStart ==
    [pc |-> "idle", i |-> 0, delay |-> 0, probes |-> 0, last |-> "none",
     slept |-> <<>>, result |-> NoResult]

\* start(), lines 81-87: find the binary and spawn the server.
LlamaStart(c, found, spawned) ==
    /\ lp.calls[c].pc \in {"idle", "returned"}
    /\ lp' = IF ~found
             THEN [lp EXCEPT !.calls[c] =
                    [NoStart EXCEPT !.pc = "returned",
                                    !.result = Err("llama binary not found")]]
             ELSE IF ~spawned
             THEN [lp EXCEPT !.calls[c] =
                    [NoStart EXCEPT !.pc = "returned", !.result = Err("spawn")]]
             ELSE [lp EXCEPT !.calls[c] = [NoStart EXCEPT !.pc = "store"]]
    /\ UNCHANGED <<skillsDir, modules, loadResult, scan, inv, agent, mm, np, tm, sa, sh>>

\* lines 88-91: the child is stored in the provider, in place of whatever
\* child was there, and the delay starts at 200 ms.
LlamaStore(c) ==
    /\ lp.calls[c].pc = "store"
    /\ lp' = [lp EXCEPT !.child = TRUE, !.calls[c].pc = "probe",
                        !.calls[c].delay = InitialDelayMs]
    /\ UNCHANGED <<skillsDir, modules, loadResult, scan, inv, agent, mm, np, tm, sa, sh>>

\* lines 93-100: one probe; a success status returns Ok.
LlamaProbe(c, answer) ==
    /\ lp.calls[c].pc = "probe"
    /\ lp' = IF answer = "success"
             THEN [lp EXCEPT !.calls[c].pc = "returned", !.calls[c].probes = @ + 1,
                             !.calls[c].last = answer, !.calls[c].result = Ok("")]
             ELSE [lp EXCEPT !.calls[c].pc = "sleep", !.calls[c].probes = @ + 1,
                             !.calls[c].last = answer]
    /\ UNCHANGED <<skillsDir, modules, loadResult, scan, inv, agent, mm, np, tm, sa, sh>>

\* lines 101-104: sleep, grow the delay, and give up after the last round.
LlamaSleep(c) ==
    /\ lp.calls[c].pc = "sleep"
    /\ lp' = IF lp.calls[c].i + 1 < MaxProbes
             THEN [lp EXCEPT !.calls[c].pc = "probe", !.calls[c].i = @ + 1,
                             !.calls[c].slept = Append(@, lp.calls[c].delay),
                             !.calls[c].delay = NextDelay(lp.calls[c].delay)]
             ELSE [lp EXCEPT !.calls[c].pc = "returned", !.calls[c].i = @ + 1,
                             !.calls[c].slept = Append(@, lp.calls[c].delay),
                             !.calls[c].delay = NextDelay(lp.calls[c].delay),
                             !.calls[c].result =
                                Err("llama provider failed to start or health-check failed")]
    /\ UNCHANGED <<skillsDir, modules, loadResult, scan, inv, agent, mm, np, tm, sa, sh>>

\* stop(), lines 107-112: takes the child out of the provider and kills
\* it.  stop takes &self and the lock on the child is free while a start
\* probes, so it runs at any time, also in the middle of a start.
LlamaStop ==
    /\ lp' = [lp EXCEPT !.child = FALSE]
    /\ UNCHANGED <<skillsDir, modules, loadResult, scan, inv, agent, mm, np, tm, sa, sh>>

\* LlamaProvider::new
InitLlama ==
    /\ EngineIdle
    /\ IdleBut("lp")
    /\ lp = [child |-> FALSE, calls |-> [c \in Starters |-> NoStart]]

NextLlama ==
    \/ \E c \in Starters :
         \/ \E found, spawned \in BOOLEAN : LlamaStart(c, found, spawned)
         \/ LlamaStore(c)
         \/ \E answer \in {"success", "status", "refused"} : LlamaProbe(c, answer)
         \/ LlamaSleep(c)
    \/ LlamaStop

SpecLlama == InitLlama /\ [][NextLlama]_vars

\* ---------------------------------------------------------------------
\* C26
\* ---------------------------------------------------------------------

RECURSIVE Doubled(_, _)
Doubled(d, k) == IF k = 0 THEN d ELSE Doubled(d + d, k - 1)

\* The delay after the k-th failed probe: 200 ms doubled k - 1 times, capped.
DelayAfter(k) == IF Doubled(200, k - 1) > 3000 THEN 3000 ELSE Doubled(200, k - 1)

\* C26: every call of start, whatever other calls of start and stop run
\* meanwhile, makes at most 12 probes; it probes only while no probe of it
\* has answered with success, and returns Ok at the probe that does; it
\* returns Err after the 12th failed probe; the delay after the k-th failed
\* probe is 200 ms doubled k - 1 times and capped at 3000 ms.
C26_TwelveProbesWithBackoff ==
    /\ [](\A c \in Starters :
            LET r == lp.calls[c]
            IN  /\ r.probes <= 12
                /\ (r.pc = "returned" /\ r.probes > 0)
                    => IF r.last = "success"
                       THEN r.result = Ok("")
                       ELSE r.result.kind = "err" /\ r.probes = 12
                /\ r.last = "success" => r.pc = "returned"
                /\ \A k \in 1..Len(r.slept) :
                    /\ r.slept[k] = DelayAfter(k)
                    /\ r.slept[k] <= 3000
                /\ r.pc \in {"probe", "returned"} =>
                    Len(r.slept) = IF r.last = "success" THEN r.probes - 1 ELSE r.probes
                /\ r.pc = "sleep" => Len(r.slept) = r.probes - 1)
    /\ [][\A c \in Starters :
            lp'.calls[c].probes > lp.calls[c].probes
            => /\ lp.calls[c].pc = "probe" /\ lp.calls[c].last # "success"
               /\ lp'.calls[c].probes = lp.calls[c].probes + 1]_vars

\* A start has returned Err after twelve failed probes, while a second
\* start on the same provider is in its seventh round and the child is
\* stored.
C26_Witness ==
    /\ lp.calls[1].pc = "returned"
    /\ lp.calls[1].result.kind = "err"
    /\ lp.calls[1].probes = 12
    /\ lp.calls[1].slept[12] = 3000
    /\ lp.calls[1].slept[4] = 1600
    /\ lp.calls[2].pc = "sleep" /\ lp.calls[2].probes = 7
    /\ lp.calls[2].slept[6] = 3000
    /\ lp.child

\* ---------------------------------------------------------------------
\* tui/components/task_manager.rs: the ProfessionalTaskManager
\* ---------------------------------------------------------------------

\* How many tasks are created or enqueued, and how many steps a task gets.
MaxTasks == 2
MaxSteps == 1

\* create_task, lines 377-382
PriorityNum(p) ==
    IF p = "Critical" THEN 0
    ELSE IF p = "High" THEN 1
    ELSE IF p = "Medium" THEN 2
    ELSE 3

\* ProfessionalTask::new, with the id the manager's counter stands for.
NewTask(id, priority) ==
    [id |-> id, status |-> "Pending", priority |-> priority, steps |-> <<>>,
     current |-> 0, progress |-> <<0, 1>>, deps |-> {}]

\* update_progress: the share of completed steps as a fraction; without
\* steps 1.0, 0.1 or 0.0 by status.
UpdateProgress(t) ==
    LET done == Cardinality({k \in DOMAIN t.steps : t.steps[k].status = "Completed"})
    IN  [t EXCEPT !.progress =
            IF t.steps = <<>>
            THEN IF t.status = "Completed" THEN <<1, 1>>
                 ELSE IF t.status = "InProgress" THEN <<1, 10>>
                 ELSE <<0, 1>>
            ELSE <<done, Len(t.steps)>>]

\* ProfessionalTask::add_step
TaskAddStep(t, dependsOn) ==
    [t EXCEPT !.steps = Append(@, [status |-> "Pending", dependsOn |-> dependsOn])]

\* A pending step all of whose dependencies that name a step are completed.
StepReady(t, k) ==
    /\ t.steps[k].status = "Pending"
    /\ \A d \in t.steps[k].dependsOn :
        d \in DOMAIN t.steps => t.steps[d].status = "Completed"

\* ProfessionalTask::can_start
CanStart(t, completed) ==
    /\ t.deps \subseteq completed
    /\ \E k \in DOMAIN t.steps : StepReady(t, k)

\* ProfessionalTask::get_next_ready_step
GetNextReadyStep(t) ==
    LET ready == {k \in DOMAIN t.steps : StepReady(t, k)}
    IN  IF ready = {} THEN t
        ELSE LET k == CHOOSE i \in ready : \A j \in ready : i <= j
             IN [t EXCEPT !.steps[k].status = "InProgress",
                          !.current = k,
                          !.status = "InProgress"]

\* get_completed_set
CompletedSet(tasks) == {id \in DOMAIN tasks : tasks[id].status = "Completed"}

\* BinaryHeap::pop: a wrapper of the least priority number; the heap orders
\* wrappers of one priority in no specified way.
Tops(queue) == {w \in queue : \A v \in queue : w.priority <= v.priority}

\* create_task, lines 366-374: the new task goes into the map.  The call
\* goes on with the clone; other calls on clones of the manager (which
\* share its Arc fields) run in between.
CreateTask(priority) ==
    /\ tm.nextId <= MaxTasks
    /\ LET id == tm.nextId
           task == NewTask(id, priority)
       IN tm' = [tm EXCEPT !.nextId = id + 1,
                           !.tasks = [i \in DOMAIN tm.tasks \cup {id} |->
                                        IF i = id THEN task ELSE tm.tasks[i]],
                           !.creating = @ \cup {[pc |-> "clone", task |-> task]}]
    /\ UNCHANGED <<skillsDir, modules, loadResult, scan, inv, agent, mm, np, lp, sa, sh>>

\* create_task, line 384: task_arc.read().await.clone(), the task of the
\* map as it is by now.
CreateClone(id) ==
    /\ \E c \in tm.creating :
        /\ c.pc = "clone" /\ c.task.id = id
        /\ tm' = [tm EXCEPT !.creating =
                    (@ \ {c}) \cup {[pc |-> "enqueue", task |-> tm.tasks[id]]}]
    /\ UNCHANGED <<skillsDir, modules, loadResult, scan, inv, agent, mm, np, lp, sa, sh>>

\* TaskQueue::enqueue, lines 293-303: the task is wrapped in an Arc of its
\* own and pushed.  It is the clone of a create_task, which then returns
\* the task's id, or a task the caller built (under the next id), with or
\* without a step and with dependencies on tasks of the manager.
Enqueue(task, priority) ==
    /\ \/ /\ [pc |-> "enqueue", task |-> task] \in tm.creating
          /\ priority = PriorityNum(task.priority)
          /\ tm' = [tm EXCEPT !.queue = @ \cup {[task |-> task, priority |-> priority]},
                              !.creating = @ \ {[pc |-> "enqueue", task |-> task]},
                              !.last = [op |-> "create", result |-> task.id]]
       \/ /\ task.id = tm.nextId
          /\ tm.nextId <= MaxTasks
          /\ tm' = [tm EXCEPT !.nextId = @ + 1,
                              !.queue = @ \cup {[task |-> task, priority |-> priority]},
                              !.last = [op |-> "enqueue", result |-> task.id]]
    /\ UNCHANGED <<skillsDir, modules, loadResult, scan, inv, agent, mm, np, lp, sa, sh>>

\* add_step: on the task of the map.
AddStep(id, dependsOn) ==
    /\ IF id \in DOMAIN tm.tasks
       THEN /\ Len(tm.tasks[id].steps) < MaxSteps
            /\ dependsOn \subseteq 0..Len(tm.tasks[id].steps)
            /\ tm' = [tm EXCEPT !.tasks[id] = UpdateProgress(TaskAddStep(@, dependsOn)),
                                !.last = [op |-> "add_step",
                                          result |-> Len(tm.tasks[id].steps) + 1]]
       ELSE /\ dependsOn = {}
            /\ tm' = [tm EXCEPT !.last = [op |-> "add_step", result |-> 0]]
    /\ UNCHANGED <<skillsDir, modules, loadResult, scan, inv, agent, mm, np, lp, sa, sh>>

\* start_next_task, line 403: caller c takes the set of completed tasks.
\* The calls of the callers interleave at every lock they take.
StartNextTask(c) ==
    /\ tm.starts[c].pc = "idle"
    /\ tm' = [tm EXCEPT !.starts[c].pc = "dequeue",
                        !.starts[c].completed = CompletedSet(tm.tasks)]
    /\ UNCHANGED <<skillsDir, modules, loadResult, scan, inv, agent, mm, np, lp, sa, sh>>

\* TaskQueue::dequeue, lines 305-320, under the lock of the queue: only the
\* popped wrapper is looked at, and it is pushed back when it cannot start.
\* Caller c is inside start_next_task and passes the set it took, or calls
\* dequeue of the public queue itself, with any set.
Dequeue(c, completed) ==
    /\ \/ tm.starts[c].pc = "dequeue" /\ completed = tm.starts[c].completed
       \/ tm.starts[c].pc = "idle"
    /\ LET inStart == tm.starts[c].pc = "dequeue"
           none    == [tm EXCEPT !.starts[c].pc = "idle", !.starts[c].completed = {},
                                 !.last = [op |-> IF inStart THEN "start" ELSE "dequeue",
                                           result |-> 0]]
       IN \/ /\ tm.queue = {}
             /\ tm' = none
          \/ \E w \in Tops(tm.queue) :
               IF ~CanStart(w.task, completed) THEN tm' = none
               ELSE IF inStart
               THEN tm' = [tm EXCEPT !.queue = @ \ {w},
                                     !.starts[c] = [pc |-> "run", completed |-> {}, task |-> w.task]]
               ELSE tm' = [tm EXCEPT !.queue = @ \ {w},
                                     !.last = [op |-> "dequeue", result |-> w.task.id]]
    /\ UNCHANGED <<skillsDir, modules, loadResult, scan, inv, agent, mm, np, lp, sa, sh>>

\* start_next_task, lines 405-413: the task that was dequeued, which only
\* this caller holds, becomes InProgress and then the running task.
StartRun(c) ==
    /\ tm.starts[c].pc = "run"
    /\ LET task == UpdateProgress([tm.starts[c].task EXCEPT !.status = "InProgress"])
       IN tm' = [tm EXCEPT !.running = task.id,
                           !.runningTask = task,
                           !.starts[c].pc = "history",
                           !.starts[c].task = task]
    /\ UNCHANGED <<skillsDir, modules, loadResult, scan, inv, agent, mm, np, lp, sa, sh>>

\* start_next_task, lines 415-422: the id goes into the history and the
\* task is returned.
StartHistory(c) ==
    /\ tm.starts[c].pc = "history"
    /\ tm' = [tm EXCEPT !.history = Append(@, tm.starts[c].task.id),
                        !.starts[c] = [pc |-> "idle", completed |-> {}, task |-> NewTask(0, "Medium")],
                        !.last = [op |-> "start", result |-> tm.starts[c].task.id]]
    /\ UNCHANGED <<skillsDir, modules, loadResult, scan, inv, agent, mm, np, lp, sa, sh>>

\* complete_step: on the task of the map.
CompleteStep(id, k) ==
    /\ IF id \in DOMAIN tm.tasks /\ k \in DOMAIN tm.tasks[id].steps
       THEN LET t == UpdateProgress([tm.tasks[id] EXCEPT !.steps[k].status = "Completed"])
                all == \A j \in DOMAIN t.steps : t.steps[j].status = "Completed"
            IN tm' = [tm EXCEPT !.tasks[id] =
                                    IF all
                                    THEN [t EXCEPT !.status = "Completed", !.progress = <<1, 1>>]
                                    ELSE GetNextReadyStep(t),
                                !.completed = IF all THEN @ \cup {id} ELSE @,
                                !.last = [op |-> "complete_step", result |-> 1]]
       ELSE tm' = [tm EXCEPT !.last = [op |-> "complete_step", result |-> 0]]
    /\ UNCHANGED <<skillsDir, modules, loadResult, scan, inv, agent, mm, np, lp, sa, sh>>

\* TaskQueue::complete (task_manager.rs:322-325), called on the manager's
\* public queue: the id enters the set of completed ids; no task changes.
Complete(id) ==
    /\ tm' = [tm EXCEPT !.completed = @ \cup {id},
                        !.last = [op |-> "complete", result |-> id]]
    /\ UNCHANGED <<skillsDir, modules, loadResult, scan, inv, agent, mm, np, lp, sa, sh>>

\* ProfessionalTaskManager::new; two callers hold a clone of the manager.
InitTasks ==
    /\ EngineIdle
    /\ IdleBut("tm")
    /\ tm = [nextId |-> 1,
             tasks |-> [id \in {} |-> NewTask(0, "Medium")],
             queue |-> {},
             completed |-> {},
             running |-> 0,
             runningTask |-> NewTask(0, "Medium"),
             history |-> <<>>,
             creating |-> {},
             starts |-> [c \in {1, 2} |->
                            [pc |-> "idle", completed |-> {}, task |-> NewTask(0, "Medium")]],
             last |-> [op |-> "new", result |-> 0]]

NextTasks ==
    \/ \E p \in {"Critical", "Low"} : CreateTask(p)
    \/ \E id \in 1..MaxTasks : CreateClone(id)
    \/ \E c \in tm.creating : Enqueue(c.task, PriorityNum(c.task.priority))
    \/ \E hasStep \in BOOLEAN, deps \in SUBSET DOMAIN tm.tasks,
          p \in {"Critical", "Low"} :
        LET bare == [NewTask(tm.nextId, p) EXCEPT !.deps = deps]
        IN  Enqueue(IF hasStep THEN TaskAddStep(bare, {}) ELSE bare, PriorityNum(p))
    \/ \E id \in 1..MaxTasks, dependsOn \in SUBSET (0..MaxSteps) : AddStep(id, dependsOn)
    \/ \E c \in {1, 2} :
        \/ StartNextTask(c)
        \/ \E completed \in SUBSET (1..MaxTasks) : Dequeue(c, completed)
        \/ StartRun(c)
        \/ StartHistory(c)
    \/ \E id \in 1..MaxTasks, k \in 1..MaxSteps : CompleteStep(id, k)
    \/ \E id \in 1..MaxTasks : Complete(id)

SpecTasks == InitTasks /\ [][NextTasks]_vars

\* ---------------------------------------------------------------------
\* C27
\* ---------------------------------------------------------------------

\* The queued tasks whose task dependencies are all completed.
ReadyQueued == {w \in tm.queue : w.task.deps \subseteq CompletedSet(tm.tasks)}

\* C27, as stated: start_next_task returns a queued task of the highest
\* priority among those whose task dependencies are all completed, and
\* marks it InProgress; so a task of create_task with one step without
\* dependencies is returned by the next start_next_task.  Here: a
\* start_next_task that finds such a task in the queue takes one of the
\* highest priority instead of returning None, and the task it makes the
\* running task is InProgress.
C27_StartsHighestReady ==
    [][\A c \in {1, 2} :
        /\ (tm.starts[c].pc = "dequeue" /\ tm'.starts[c].pc # "dequeue" /\ ReadyQueued # {})
            => /\ tm'.starts[c].pc = "run"
               /\ \E w \in ReadyQueued :
                    /\ tm'.starts[c].task = w.task
                    /\ \A v \in ReadyQueued : w.priority <= v.priority
        /\ (tm.starts[c].pc = "run" /\ tm'.starts[c].pc # "run")
            => tm'.runningTask.status = "InProgress"]_vars

\* ---------------------------------------------------------------------
\* graph/fsm.rs, graph/dag.rs and agent/super_agent.rs: the SuperAgent
\* ---------------------------------------------------------------------

\* How many run_goal calls are made on one agent.
MaxGoals == 3

\* fsm::transition
Transition(current, next) ==
    \/ current = "Idle" /\ next = "Planning"
    \/ current = "Planning" /\ next = "Executing"
    \/ current = "Executing" /\ next = "Reviewing"
    \/ current = "Reviewing" /\ next = "Completed"
    \/ next = "Failed"

\* AgentGraph::add_node
GraphAddNode(g, name, state) ==
    [g EXCEPT !.nodes = Append(@, [id |-> Len(g.nodes), name |-> name, state |-> state])]

\* AgentGraph::add_edge
GraphAddEdge(g, from, to) == [g EXCEPT !.edges = Append(@, <<from, to>>)]

\* What the llm answers to a chat: a text, or an error.
GoalOk(text) == [kind |-> "ok", text |-> text]
GoalErr(text) == [kind |-> "err", text |-> text]

\* SubAgent::execute: the echo tool gives the plan back; never an error.
Execute(plan) == GoalOk(plan)

\* run_goal, line 28
RunGoal(goal) ==
    /\ sa.pc = "idle"
    /\ sa.calls < MaxGoals
    /\ sa' = [sa EXCEPT !.pc = "plan", !.scheduler = "Planning",
                        !.goal = goal,
                        !.calls = @ + 1, !.plan = "", !.out = "", !.result = [kind |-> "none", text |-> ""]]
    /\ UNCHANGED <<skillsDir, modules, loadResult, scan, inv, agent, mm, np, lp, tm, sh>>

\* lines 31-38: the planner's plan, or its error returned by `?`
GoalPlan(answer) ==
    /\ sa.pc = "plan"
    /\ sa' = IF answer.kind = "err"
             THEN [sa EXCEPT !.pc = "idle", !.result = answer]
             ELSE [sa EXCEPT !.pc = "execute", !.plan = answer.text,
                             !.graph = GraphAddNode(@, "planner", "Planning"),
                             !.scheduler = "Executing"]
    /\ UNCHANGED <<skillsDir, modules, loadResult, scan, inv, agent, mm, np, lp, tm, sh>>

\* lines 40-46
GoalExecute ==
    /\ sa.pc = "execute"
    /\ LET out == Execute(sa.plan)
       IN sa' = IF out.kind = "err"
                THEN [sa EXCEPT !.pc = "idle", !.result = out]
                ELSE [sa EXCEPT !.pc = "review", !.out = out.text,
                                !.graph = GraphAddEdge(GraphAddNode(@, "executor", "Executing"), 0, 1),
                                !.scheduler = "Reviewing"]
    /\ UNCHANGED <<skillsDir, modules, loadResult, scan, inv, agent, mm, np, lp, tm, sh>>

\* lines 49-60: the critic's answer or error is only printed.
GoalReview(answer) ==
    /\ sa.pc = "review"
    /\ sa' = [sa EXCEPT !.pc = "idle",
                        !.graph = GraphAddEdge(GraphAddNode(@, "critic", "Reviewing"), 1, 2),
                        !.scheduler = "Completed",
                        !.result = GoalOk(IF answer.kind = "err" THEN "critic error" ELSE answer.text)]
    /\ UNCHANGED <<skillsDir, modules, loadResult, scan, inv, agent, mm, np, lp, tm, sh>>

\* SuperAgent::new
InitSuperAgent ==
    /\ EngineIdle
    /\ IdleBut("sa")
    /\ sa = [pc |-> "idle", scheduler |-> "Idle",
             graph |-> [nodes |-> <<>>, edges |-> <<>>],
             goal |-> "", plan |-> "", out |-> "", calls |-> 0,
             result |-> [kind |-> "none", text |-> ""]]

NextSuperAgent ==
    \/ \E goal \in {"goal a", "goal b"} : RunGoal(goal)
    \/ \E answer \in {GoalOk("plan a"), GoalOk("plan b"), GoalErr("llm")} : GoalPlan(answer)
    \/ GoalExecute
    \/ \E answer \in {GoalOk("plan a"), GoalOk("plan b"), GoalErr("llm")} : GoalReview(answer)

SpecSuperAgent == InitSuperAgent /\ [][NextSuperAgent]_vars

\* ---------------------------------------------------------------------
\* C29
\* ---------------------------------------------------------------------

\* C29, as stated: every change of scheduler, over any sequence of run_goal
\* calls, is a transition that fsm::transition permits.
C29_SchedulerFollowsFsm ==
    [][sa'.scheduler # sa.scheduler => Transition(sa.scheduler, sa'.scheduler)]_vars

\* ---------------------------------------------------------------------
\* tui/components/multi_session.rs: SessionHistory
\* ---------------------------------------------------------------------

\* The largest max_entries a history is created with, and how many items
\* are added to one history.
MaxEntries == 3
MaxAdded == 4

\* HistoryEntry, without its fresh id and timestamp
HistoryEntry(role, content) == [role |-> role, content |-> content]

PopBackTo(q, n) == IF Len(q) > n THEN SubSeq(q, 1, n) ELSE q

\* while q.len() > n { q.pop_front(); }
PopFrontTo(q, n) == IF Len(q) > n THEN SubSeq(q, Len(q) - n + 1, Len(q)) ELSE q

\* SessionHistory::trim
Trim(h) ==
    [h EXCEPT !.messages = PopFrontTo(@, h.maxEntries),
              !.commands = PopFrontTo(@, h.maxEntries \div 2),
              !.outputs = PopFrontTo(@, h.maxEntries \div 2)]

AddMessage(role, content) ==
    /\ sh.added < MaxAdded
    /\ sh' = Trim([sh EXCEPT !.messages = Append(@, HistoryEntry(role, content)),
                             !.allMessages = Append(@, HistoryEntry(role, content)),
                             !.added = @ + 1])
    /\ UNCHANGED <<skillsDir, modules, loadResult, scan, inv, agent, mm, np, lp, tm, sa>>

AddCommand(command) ==
    /\ sh.added < MaxAdded
    /\ sh' = Trim([sh EXCEPT !.commands = Append(@, command),
                             !.allCommands = Append(@, command),
                             !.added = @ + 1])
    /\ UNCHANGED <<skillsDir, modules, loadResult, scan, inv, agent, mm, np, lp, tm, sa>>

AddOutput(output) ==
    /\ sh.added < MaxAdded
    /\ sh' = Trim([sh EXCEPT !.outputs = Append(@, output),
                             !.allOutputs = Append(@, output),
                             !.added = @ + 1])
    /\ UNCHANGED <<skillsDir, modules, loadResult, scan, inv, agent, mm, np, lp, tm, sa>>

\* SessionHistory::new with a limit of 0 to MaxEntries, with the record of
\* everything added since.
InitHistory ==
    /\ EngineIdle
    /\ IdleBut("sh")
    /\ sh \in {[maxEntries |-> n, added |-> 0,
                 messages |-> <<>>, commands |-> <<>>, outputs |-> <<>>,
                 allMessages |-> <<>>, allCommands |-> <<>>, allOutputs |-> <<>>] :
                    n \in 0..MaxEntries}

NextHistory ==
    \/ \E content \in {"a", "b"} : AddMessage("user", content)
    \/ \E command \in {"a", "b"} : AddCommand(command)
    \/ \E output \in {"a", "b"} : AddOutput(output)

SpecHistory == InitHistory /\ [][NextHistory]_vars

\* ---------------------------------------------------------------------
\* C30
\* ---------------------------------------------------------------------

\* The last n items of everything added, in the order they were added.
MostRecent(all, n) ==
    [i \in 1..(IF Len(all) < n THEN Len(all) ELSE n) |->
        all[i + (IF Len(all) < n THEN 0 ELSE Len(all) - n)]]

\* C30: messages holds at most max_entries items, commands and outputs at
\* most floor(max_entries / 2) each, and each queue holds the most recently
\* added items in insertion order.
C30_QueuesKeepTheNewest ==
    /\ Len(sh.messages) <= sh.maxEntries
    /\ 2 * Len(sh.commands) <= sh.maxEntries
    /\ 2 * Len(sh.outputs) <= sh.maxEntries
    /\ sh.messages = MostRecent(sh.allMessages, sh.maxEntries)
    /\ sh.commands = MostRecent(sh.allCommands, sh.maxEntries \div 2)
    /\ sh.outputs = MostRecent(sh.allOutputs, sh.maxEntries \div 2)

C30_Witness ==
    /\ sh.maxEntries = 3
    /\ sh.allCommands = <<"a", "b">>
    /\ sh.commands = <<"b">>
    /\ Len(sh.allOutputs) = 2
    /\ Len(sh.outputs) = 1

====
